---- MODULE Spec2Model ----
(***************************************************************************)
(* Order lifecycle of rs_algo_shared (src/models/order.rs): validation of  *)
(* proposed order batches, the pending-order ledger, activation detection, *)
(* expiry / cancellation and fulfilment.                                   *)
(*                                                                         *)
(* Prices are integers (fixed-point units of the f64 prices), dates are    *)
(* integers (minutes), bar indices are 0-based as in the Rust code.        *)
(***************************************************************************)
EXTENDS Integers, Sequences, FiniteSets, TLC

VARIABLES
    mode,         \* EXECUTION_MODE: "Backtest" or "Live"
    data,         \* instrument.data: the candles, a function 0..NumBars-1 -> candle
    index,        \* the bar index the scheduler is at
    orders,       \* the order ledger (Vec<Order>)
    position,     \* the Position returned by the last resolve_[bot_]active_orders
    order_position, \* that call's local order_position, before the exit gate
    trade_type,   \* prepare_orders argument
    order_types,  \* prepare_orders argument: the proposed batch
    batch,        \* the Vec<Order> returned by the last prepare_[bot_]orders
    aborted,      \* TRUE once a panic!() has terminated the process
    pc,           \* the phase of the scan step the scheduler is in
    non_profitable_outs, \* NON_PROFITABLE_OUTS
    order_engine, \* ORDER_ENGINE: "broker" or anything else ("bot")
    pricing,      \* the Pricing snapshot the trade resolver is called with
    trade_in,     \* the open trade: Option<TradeIn>
    trade_result, \* the TradeResult of the last resolve_trade_in / _out
    suppressed,   \* the ledger position of the order whose exit the resolver
                  \* last suppressed: Option<usize>
    pending_orders,     \* the Vec<Order> returned by the last get_pending
    num_pending_orders  \* the counts returned by the last get_num_pending_orders

\* the configuration read from the environment and the trade resolver's state
trade_vars ==
    <<non_profitable_outs, order_engine, pricing, trade_in, trade_result, suppressed>>

\* the results of the queries on the ledger
query_vars == <<pending_orders, num_pending_orders>>

vars == <<mode, data, index, orders, position, order_position,
          trade_type, order_types, batch, aborted, pc,
          non_profitable_outs, order_engine, pricing, trade_in, trade_result,
          suppressed, pending_orders, num_pending_orders>>

-----------------------------------------------------------------------------
(* Bounds of the model *)

NumBars == 4        \* length of the candle array
MaxBatch == 2       \* longest proposed batch of order intents
MaxLedger == 4      \* longest ledger

(* Configuration read from the environment *)

MAX_BUY_ORDERS == 1
MAX_SELL_ORDERS == 1
MAX_STOP_LOSSES == 1
MAX_PENDING_ORDERS == 2
VALID_UNTIL_BARS == 2
TIME_FRAME == "M5"

-----------------------------------------------------------------------------
(* models/time_frame.rs *)

TimeFrame_new(time_frame) ==
    CASE time_frame = "M5" -> "M5"
      [] time_frame = "M1" -> "M1"
      [] time_frame = "M15" -> "M15"
      [] time_frame = "M30" -> "M30"
      [] time_frame = "H1" -> "H1"
      [] time_frame = "H4" -> "H4"
      [] time_frame = "D" -> "D"
      [] time_frame = "W" -> "W"
      [] time_frame = "MN" -> "MN"
      [] OTHER -> "ERR"

to_number(tf) ==
    CASE tf = "ERR" -> 0
      [] tf = "M1" -> 1
      [] tf = "M5" -> 5
      [] tf = "M15" -> 15
      [] tf = "M30" -> 30
      [] tf = "H1" -> 60
      [] tf = "H4" -> 240
      [] tf = "D" -> 1440
      [] tf = "W" -> 10080
      [] tf = "MN" -> 43200

\* TimeFrameType values
TimeFrameTypes == {"MN", "W", "D", "H4", "H1", "M30", "M15", "M5", "M1", "ERR"}

\* a from_number whose default arm answers M1
from_number_default_m1(time_frame) ==
    CASE time_frame = 1 -> "M1"
      [] time_frame = 5 -> "M5"
      [] time_frame = 15 -> "M15"
      [] time_frame = 30 -> "M30"
      [] time_frame = 60 -> "H1"
      [] time_frame = 240 -> "H4"
      [] time_frame = 1440 -> "D"
      [] time_frame = 10080 -> "W"
      [] time_frame = 43200 -> "MN"
      [] OTHER -> "M1"

from_number(time_frame) ==
    CASE time_frame = 1 -> "M1"
      [] time_frame = 5 -> "M5"
      [] time_frame = 15 -> "M15"
      [] time_frame = 30 -> "M30"
      [] time_frame = 60 -> "H1"
      [] time_frame = 240 -> "H4"
      [] time_frame = 1440 -> "D"
      [] time_frame = 10080 -> "W"
      [] time_frame = 43200 -> "MN"
      [] OTHER -> "ERR"

from_str(time_frame) ==
    CASE time_frame = "M1" -> "M1"
      [] time_frame = "M5" -> "M5"
      [] time_frame = "M15" -> "M15"
      [] time_frame = "M30" -> "M30"
      [] time_frame = "H1" -> "H1"
      [] time_frame = "H4" -> "H4"
      [] time_frame = "D" -> "D"
      [] time_frame = "W" -> "W"
      [] time_frame = "MN" -> "MN"
      [] OTHER -> "ERR"

\* Display for TimeFrameType: the derived Debug text, the variant's name
TimeFrameType_fmt(tf) ==
    CASE tf = "MN" -> "MN"
      [] tf = "W" -> "W"
      [] tf = "D" -> "D"
      [] tf = "H4" -> "H4"
      [] tf = "H1" -> "H1"
      [] tf = "M30" -> "M30"
      [] tf = "M15" -> "M15"
      [] tf = "M5" -> "M5"
      [] tf = "M1" -> "M1"
      [] tf = "ERR" -> "ERR"

-----------------------------------------------------------------------------
(* The candle array.  Every bar has one of a few shapes;  bar i is dated   *)
(* i time-frame periods after bar 0.  An array repeats a pattern of shapes.*)

Flat == [open |-> 100, high |-> 105, low |-> 95, close |-> 100]

Rise == [open |-> 100, high |-> 111, low |-> 89, close |-> 104]

Spike == [open |-> 100, high |-> 116, low |-> 85, close |-> 96]

Surge == [open |-> 100, high |-> 120, low |-> 80, close |-> 100]

\* a bar that opens off the previous close
Gap == [open |-> 105, high |-> 111, low |-> 95, close |-> 104]

Patterns ==
    { <<Flat, Rise, Spike>>, <<Flat, Flat, Rise>>,
      <<Rise, Spike, Flat>>, <<Spike, Rise, Flat>>,
      <<Flat, Rise, Spike, Surge>> }

BarDate(i) == i * to_number(TimeFrame_new(TIME_FRAME))

Candle(i, shape) ==
    [date |-> BarDate(i), open |-> shape.open, high |-> shape.high,
     low |-> shape.low, close |-> shape.close]

DataOf(pattern) ==
    [i \in 0..(NumBars - 1) |-> Candle(i, pattern[(i % Len(pattern)) + 1])]

DataSets == { DataOf(pattern) : pattern \in Patterns }

\* index of instrument.data.last(): the array is fixed in Backtest and ends
\* at the current bar in Live
LastIndex == IF mode = "Backtest" THEN NumBars - 1 ELSE index

-----------------------------------------------------------------------------
(* models/order.rs: OrderType *)

EntryKinds == {"BuyOrderLong", "BuyOrderShort"}
ExitKinds == {"SellOrderLong", "SellOrderShort", "TakeProfitLong", "TakeProfitShort"}

is_entry(order_type) == order_type.kind \in EntryKinds

is_exit(order_type) == order_type.kind \in ExitKinds

is_stop(order_type) == order_type.kind = "StopLoss"

\* TradeType::is_long, over the trade types prepare_orders is called with
TradeType_is_long(tt) ==
    tt \in {"MarketInLong", "MarketOutLong", "StopLossLong", "OrderInLong", "OrderOutLong"}

-----------------------------------------------------------------------------
(* Option<T>: None is the empty sequence, Some(v) is <<v>> *)

None == <<>>

Some(v) == <<v>>

\* helpers/uuid.rs generate_ts_id: an identifier derived from the timestamp
generate_ts_id(date) == date

-----------------------------------------------------------------------------
(* models/order.rs: validation and creation of orders *)

\* validate_target_price with the comparisons made strict: a target equal to
\* the close passes
validate_target_price_strict(direction, close_price, target_price) ==
    IF direction = "Up"
    THEN (IF close_price > target_price THEN "panic" ELSE "true")
    ELSE (IF close_price < target_price THEN "panic" ELSE "true")

\* "true", or "panic" where the code reaches panic!() (the `false` that
\* follows the panic is unreachable)
validate_target_price(direction, close_price, target_price) ==
    IF direction = "Up"
    THEN (IF close_price >= target_price THEN "panic" ELSE "true")
    ELSE (IF close_price <= target_price THEN "panic" ELSE "true")

\* valid_until of create_order / create_bot_order when the environment's
\* TIME_FRAME reads base_time_frame
valid_until_under(base_time_frame, current_date) ==
    current_date + to_number(TimeFrame_new(base_time_frame)) * VALID_UNTIL_BARS

ValidUntil(current_date) == valid_until_under(TIME_FRAME, current_date)

create_order(idx, trade_id, order_type, target_price, quantity) ==
    LET next_index == idx + 1
        current_date == data[next_index].date
    IN [id |-> generate_ts_id(current_date),
        index_created |-> next_index,
        index_fulfilled |-> 0,
        trade_id |-> trade_id,
        order_type |-> order_type,
        status |-> "Pending",
        origin_price |-> data[idx].close,
        target_price |-> target_price,
        quantity |-> quantity,
        created_at |-> current_date,
        updated_at |-> None,
        full_filled_at |-> None,
        valid_until |-> Some(ValidUntil(current_date))]

create_bot_order(trade_id, order_type, target_price, quantity) ==
    LET current_date == data[LastIndex].date
    IN [id |-> generate_ts_id(current_date),
        index_created |-> LastIndex,
        index_fulfilled |-> 0,
        trade_id |-> trade_id,
        order_type |-> order_type,
        status |-> "Pending",
        origin_price |-> data[LastIndex].close,
        target_price |-> target_price,
        quantity |-> quantity,
        created_at |-> current_date,
        updated_at |-> None,
        full_filled_at |-> None,
        valid_until |-> Some(ValidUntil(current_date))]

\* models/stop_loss.rs create_stop_loss_order / create_bot_stop_loss_order:
\* an order of type StopLoss(direction, stop_loss_type) whose target price is
\* derived from the stop-loss type; the derived price is the value the
\* StopLoss intent carries.
create_stop_loss_order(bot, idx, trade_id, order_type) ==
    IF bot
    THEN create_bot_order(trade_id, order_type, order_type.stop_loss_type, 1)
    ELSE create_order(idx, trade_id, order_type, order_type.stop_loss_type, 1)

\* One iteration of the `for order_type in order_types` loop of
\* prepare_orders / prepare_bot_orders (bot = TRUE).  acc carries the locals.
prepare_step(bot, idx, trade_id, acc, order_type) ==
    LET close_price == data[idx].close IN
    IF acc.panicked THEN acc
    ELSE IF ~is_stop(order_type)
    THEN IF validate_target_price(order_type.direction, close_price,
                                  order_type.target_price) = "panic"
         THEN [acc EXCEPT !.panicked = TRUE]
         ELSE LET order == IF bot
                           THEN create_bot_order(trade_id, order_type,
                                    order_type.target_price, order_type.size)
                           ELSE create_order(idx, trade_id, order_type,
                                    order_type.target_price, order_type.size)
              IN [acc EXCEPT
                    !.orders = Append(@, order),
                    !.buy_order_target =
                        IF is_entry(order_type) THEN order.target_price ELSE @,
                    !.sell_order_target =
                        IF is_entry(order_type) THEN @ ELSE order.target_price]
    ELSE LET stop_loss == create_stop_loss_order(bot, idx, trade_id, order_type)
         IN IF validate_target_price(order_type.direction, close_price,
                                     stop_loss.target_price) = "panic"
            THEN [acc EXCEPT !.panicked = TRUE, !.is_stop_loss = TRUE]
            ELSE [acc EXCEPT
                    !.is_stop_loss = TRUE,
                    !.stop_order_target = stop_loss.target_price,
                    !.stop_loss_direction = order_type.direction,
                    !.orders = Append(@, stop_loss)]

RECURSIVE prepare_loop(_, _, _, _, _)
prepare_loop(bot, idx, trade_id, acc, ots) ==
    IF ots = <<>> THEN acc
    ELSE prepare_loop(bot, idx, trade_id,
                      prepare_step(bot, idx, trade_id, acc, Head(ots)), Tail(ots))

PrepareLocals ==
    [orders |-> <<>>, buy_order_target |-> 0, sell_order_target |-> 0,
     stop_order_target |-> 0, is_stop_loss |-> FALSE,
     stop_loss_direction |-> "Up", panicked |-> FALSE]

\* //CHECK STOP LOSS: TRUE when the batch is kept
check_stop_loss(acc) ==
    IF acc.is_stop_loss
    THEN IF acc.stop_loss_direction = "Down"
         THEN ~(acc.stop_order_target >= acc.buy_order_target
                /\ acc.buy_order_target > 0)
         ELSE ~(acc.stop_order_target <= acc.buy_order_target
                /\ acc.buy_order_target > 0)
    ELSE TRUE

\* check_sell_order_value with the comparisons made strict: an exit at the
\* entry's target is kept
check_sell_order_value_strict(tt, acc) ==
    IF TradeType_is_long(tt)
    THEN ~(acc.sell_order_target < acc.buy_order_target
           /\ acc.sell_order_target > 0)
    ELSE ~(acc.sell_order_target > acc.buy_order_target
           /\ acc.sell_order_target > 0)

\* //CHECK SELL ORDER VALUE: TRUE when the batch is kept
check_sell_order_value(tt, acc) ==
    IF TradeType_is_long(tt)
    THEN ~(acc.sell_order_target <= acc.buy_order_target
           /\ acc.sell_order_target > 0)
    ELSE ~(acc.sell_order_target >= acc.buy_order_target
           /\ acc.sell_order_target > 0)

\* the tail of prepare_orders / prepare_bot_orders after the loop
prepare_result(tt, acc) ==
    [panicked |-> acc.panicked,
     orders |-> IF acc.panicked THEN <<>>
                ELSE IF check_stop_loss(acc) /\ check_sell_order_value(tt, acc)
                     THEN acc.orders
                     ELSE <<>>]

prepare_orders(idx, tt, ots) ==
    LET trade_id == generate_ts_id(data[idx + 1].date)
    IN prepare_result(tt, prepare_loop(FALSE, idx, trade_id, PrepareLocals, ots))

prepare_bot_orders(idx, tt, ots) ==
    LET trade_id == generate_ts_id(data[LastIndex].date)
    IN prepare_result(tt, prepare_loop(TRUE, idx, trade_id, PrepareLocals, ots))

-----------------------------------------------------------------------------
(* models/order.rs: the ledger *)

\* the places of the Pending orders of a ledger
Pending(os) == { i \in 1..Len(os) : os[i].status = "Pending" }

\* orders.iter().rev().take(max_pending_orders): the indices of the window
RecentWindow(os) ==
    { i \in 1..Len(os) : i > Len(os) - MAX_PENDING_ORDERS }

Reverse(s) == [i \in 1..Len(s) |-> s[Len(s) + 1 - i]]

\* Iterator::take
Take(s, n) == SubSeq(s, 1, IF Len(s) < n THEN Len(s) ELSE n)

\* orders.iter().rev().take(max_pending_orders).filter(Pending).collect()
get_pending(os) ==
    SelectSeq(Take(Reverse(os), MAX_PENDING_ORDERS),
              LAMBDA x : x.status = "Pending")

\* the counts of get_num_pending_orders with the status test left out
get_num_pending_orders_any_status(os) ==
    LET window == RecentWindow(os)
    IN << Cardinality({ i \in window : is_entry(os[i].order_type) }),
          Cardinality({ i \in window : is_exit(os[i].order_type) }),
          Cardinality({ i \in window : is_stop(os[i].order_type) }) >>

\* (buy_orders, sell_orders, stop_losses)
get_num_pending_orders(os) ==
    LET pending == { i \in RecentWindow(os) : os[i].status = "Pending" }
    IN << Cardinality({ i \in pending : is_entry(os[i].order_type) }),
          Cardinality({ i \in pending : is_exit(os[i].order_type) }),
          Cardinality({ i \in pending : is_stop(os[i].order_type) }) >>

\* the per-category filter of add_pending
passes_filter(os, order) ==
    LET num == get_num_pending_orders(os)
    IN /\ order.status = "Pending"
       /\ IF is_entry(order.order_type) THEN num[1] < MAX_BUY_ORDERS
          ELSE IF is_exit(order.order_type) THEN num[2] < MAX_SELL_ORDERS
          ELSE num[3] < MAX_STOP_LOSSES

\* add_pending putting the admitted orders in front of the ledger
add_pending_front(os, new_orders) ==
    LET result == SelectSeq(new_orders, LAMBDA o : passes_filter(os, o))
    IN IF Len(result) <= MAX_PENDING_ORDERS THEN result \o os ELSE os

add_pending(os, new_orders) ==
    LET result == SelectSeq(new_orders, LAMBDA o : passes_filter(os, o))
    IN IF Len(result) <= MAX_PENDING_ORDERS THEN os \o result ELSE os

\* a cancellation that also stamps the fulfilment date
cancel_order_filled(order, date) ==
    [order EXCEPT !.status = "Canceled", !.updated_at = Some(date),
                  !.full_filled_at = Some(date)]

\* Order::cancel_order
cancel_order(order, date) ==
    [order EXCEPT !.status = "Canceled", !.updated_at = Some(date)]

\* Order::fulfill_order
fulfill_order(order, idx, date) ==
    [order EXCEPT !.status = "Fulfilled", !.updated_at = Some(date),
                  !.index_fulfilled = idx, !.full_filled_at = Some(date)]

\* Order::fulfill_bot_order
Order_fulfill_bot_order(order, date) ==
    [order EXCEPT !.status = "Fulfilled", !.updated_at = Some(date),
                  !.full_filled_at = Some(date)]

\* an order whose prices stay as created
update_pricing_kept(order, origin_price, target_price) == order

\* Order::update_pricing
update_pricing(order, origin_price, target_price) ==
    [order EXCEPT !.origin_price = origin_price, !.target_price = target_price]

\* the expiry test with a strict comparison of the dates
cancel_if_expired_strict(order, current_date, now) ==
    IF current_date > order.valid_until[1] /\ order.status = "Pending"
    THEN cancel_order(order, now)
    ELSE order

\* the closure of cancel_all_pending_orders / cancel_all_bot_pending_orders
cancel_if_expired(order, current_date, now) ==
    IF current_date >= order.valid_until[1] /\ order.status = "Pending"
    THEN cancel_order(order, now)
    ELSE order

cancel_all_pending_orders(idx, os, now) ==
    [i \in 1..Len(os) |-> cancel_if_expired(os[i], data[idx].date, now)]

\* the expiry with the commented-out retain: expired Pending orders are
\* dropped from the ledger
cancel_all_bot_pending_orders_retain(os, now) ==
    SelectSeq(os, LAMBDA o : ~(now >= o.valid_until[1] /\ o.status = "Pending"))

cancel_all_bot_pending_orders(os, now) ==
    [i \in 1..Len(os) |-> cancel_if_expired(os[i], now, now)]

\* cancel_if_pending without the test of the status
cancel_whatever_status(order, date) == cancel_order(order, date)

\* the closure of cancel_trade_pending_orders
cancel_if_pending(order, date) ==
    IF order.status = "Pending" THEN cancel_order(order, date) ELSE order

cancel_trade_pending_orders(trade_date, os) ==
    [i \in 1..Len(os) |-> cancel_if_pending(os[i], trade_date)]

\* position() taking the last match instead of the first
order_position_of_last(order, os) ==
    LET hits == { i \in 1..Len(os) :
                    os[i].status = "Pending" /\ os[i].order_type = order.order_type }
    IN IF hits = {} THEN 0 ELSE CHOOSE i \in hits : \A j \in hits : i >= j

\* orders.iter().position(|x| Pending && x.order_type == order.order_type):
\* the 1-based index of the first match, 0 for Option::None
order_position_of(order, os) ==
    LET hits == { i \in 1..Len(os) :
                    os[i].status = "Pending" /\ os[i].order_type = order.order_type }
    IN IF hits = {} THEN 0 ELSE CHOOSE i \in hits : \A j \in hits : i <= j

fulfill_trade_order(idx, trade_date, order, os) ==
    LET x == order_position_of(order, os)
    IN IF x = 0 THEN os
       ELSE [os EXCEPT ![x] = fulfill_order(os[x], idx, trade_date)]

\* fulfill_bot_order falling back to the first Pending order when no order
\* of the type is Pending
fulfill_bot_order_any(trade_date, order, os) ==
    LET x == order_position_of(order, os)
    IN IF x # 0 THEN [os EXCEPT ![x] = Order_fulfill_bot_order(os[x], trade_date)]
       ELSE IF Pending(os) = {} THEN os
       ELSE LET y == CHOOSE i \in Pending(os) : \A j \in Pending(os) : i <= j
            IN [os EXCEPT ![y] = Order_fulfill_bot_order(os[y], trade_date)]

fulfill_bot_order(trade_date, order, os) ==
    LET x == order_position_of(order, os)
    IN IF x = 0 THEN os
       ELSE [os EXCEPT ![x] = Order_fulfill_bot_order(os[x], trade_date)]

fulfill_order_and_update_pricing(idx, trade_date, price_in, order, os) ==
    LET fulfilled == fulfill_trade_order(idx, trade_date, order, os)
        diff == price_in - order.target_price
    IN [i \in 1..Len(fulfilled) |->
          IF fulfilled[i].status = "Pending"
          THEN update_pricing(fulfilled[i], price_in, fulfilled[i].target_price + diff)
          ELSE fulfilled[i]]

-----------------------------------------------------------------------------
(* models/order.rs: activation *)

\* helpers/calc.rs get_prev_index: the previous bar, bar 0 for bar 0
get_prev_index(idx) == IF idx > 0 THEN idx - 1 ELSE 0

order_activated(idx, order) ==
    LET current_candle == data[idx]
        prev_candle == data[get_prev_index(idx)]
        is_next_order == idx > order.index_fulfilled
        cross_over == /\ current_candle.high >= order.target_price
                      /\ prev_candle.high < current_candle.high
                      /\ is_next_order
        cross_bellow == /\ current_candle.low <= order.target_price
                        /\ prev_candle.low > current_candle.low
                        /\ is_next_order
    IN IF order.order_type.direction = "Up" THEN cross_over ELSE cross_bellow

bot_order_activated(idx, order) ==
    LET current_candle == data[idx]
        prev_candle == data[get_prev_index(idx)]
        is_next_order == idx > order.index_fulfilled
        cross_over == /\ current_candle.high >= order.target_price
                      /\ prev_candle.high < current_candle.high
                      /\ is_next_order
        cross_bellow == /\ current_candle.low <= order.target_price
                        /\ prev_candle.low > current_candle.low
                        /\ is_next_order
    IN IF order.order_type.direction = "Up" THEN cross_over ELSE cross_bellow

\* Position values
PositionNone == [tag |-> "None"]

MarketInOrder(order) == [tag |-> "MarketInOrder", order |-> order]

MarketOutOrder(order) == [tag |-> "MarketOutOrder", order |-> order]

\* resolve_step keeping the first activated order instead of the last
resolve_step_first(activated, acc, order) ==
    IF acc.tag # "None" THEN acc
    ELSE IF order.status = "Pending" /\ activated
    THEN IF is_entry(order.order_type) THEN MarketInOrder(order)
         ELSE MarketOutOrder(order)
    ELSE acc

\* resolve_step where an exit already found is not replaced
resolve_step_exit_kept(activated, acc, order) ==
    IF acc.tag = "MarketOutOrder" THEN acc
    ELSE IF order.status = "Pending" /\ activated
    THEN IF is_entry(order.order_type) THEN MarketInOrder(order)
         ELSE MarketOutOrder(order)
    ELSE acc

\* resolve_step without the filter on the status of the order
resolve_step_any_status(activated, acc, order) ==
    IF activated
    THEN IF is_entry(order.order_type) THEN MarketInOrder(order)
         ELSE MarketOutOrder(order)
    ELSE acc

\* the body of the loop of resolve_active_orders for one order: the new
\* value of the local order_position
resolve_step(activated, acc, order) ==
    IF order.status = "Pending" /\ activated
    THEN IF is_entry(order.order_type) THEN MarketInOrder(order)
         ELSE MarketOutOrder(order)
    ELSE acc

RECURSIVE resolve_loop(_, _, _, _)
resolve_loop(bot, idx, acc, os) ==
    IF os = <<>> THEN acc
    ELSE LET order == Head(os)
             activated == IF bot THEN bot_order_activated(idx, order)
                          ELSE order_activated(idx, order)
         IN resolve_loop(bot, idx, resolve_step(activated, acc, order), Tail(os))

has_executed_buy_order(os, operation) ==
    IF operation.tag = "MarketOutOrder"
    THEN get_num_pending_orders(os)[1] # MAX_BUY_ORDERS
    ELSE TRUE

\* the exit gate at the end of resolve_active_orders
resolved(os, pos) == IF has_executed_buy_order(os, pos) THEN pos ELSE PositionNone

resolve_active_orders(idx, os) ==
    resolved(os, resolve_loop(FALSE, idx, PositionNone, os))

resolve_bot_active_orders(idx, os) ==
    resolved(os, resolve_loop(TRUE, idx, PositionNone, os))

-----------------------------------------------------------------------------
(* models/trade.rs: the bar a trade is resolved on *)

\* the trade resolved on the current bar in both modes
calculate_trade_index_same(idx) == idx

calculate_trade_index(idx) == IF mode = "Backtest" THEN idx + 1 ELSE idx

-----------------------------------------------------------------------------
(* Inputs *)

Modes == {"Backtest", "Live"}

TradeTypes == {"OrderInLong", "OrderInShort"}

\* (direction, price) pairs.  The closes are 96, 100 and 104: <<"Up", 100>> is
\* a price a close of 100 or 104 has already crossed, <<"Down", 115>> a price
\* every close has crossed.
DirectedTargets ==
    { <<"Up", 100>>, <<"Up", 110>>, <<"Up", 115>>,
      <<"Down", 115>>, <<"Down", 90>>, <<"Down", 85>> }

OrderIntent(kind, dt) ==
    [kind |-> kind, direction |-> dt[1], size |-> 1, target_price |-> dt[2]]

StopLossIntent(dt) ==
    [kind |-> "StopLoss", direction |-> dt[1], stop_loss_type |-> dt[2]]

\* the order intents of the batch-validation specification
Intents ==
    { OrderIntent(k, dt) :
        k \in {"BuyOrderLong", "BuyOrderShort", "SellOrderLong", "TakeProfitShort"},
        dt \in DirectedTargets }
    \cup { StopLossIntent(dt) : dt \in DirectedTargets }

BatchesOf(intents) == UNION { [1..k -> intents] : k \in 0..MaxBatch }

\* the batches the strategy proposes in the ledger specification
BuyLong == OrderIntent("BuyOrderLong", <<"Up", 110>>)

SellLong == OrderIntent("SellOrderLong", <<"Up", 115>>)

StopLong == StopLossIntent(<<"Down", 90>>)

\* a stop-loss only the Surge bar reaches
StopLow == StopLossIntent(<<"Down", 82>>)

\* an entry the Rise bar does not reach
BuyHigh == OrderIntent("BuyOrderLong", <<"Up", 115>>)

LedgerBatches ==
    { <<>>, <<BuyLong>>, <<BuyLong, BuyLong>>, <<SellLong, StopLong>>,
      <<StopLong>>, <<BuyHigh, BuyHigh>>, <<StopLow, SellLong>> }

\* Local::now(): the wall clock.  A backtest replays candles of the past; a
\* live step runs while the last candle is the current one.
Clock == IF mode = "Backtest" THEN BarDate(NumBars) ELSE data[index].date

HasCandle(idx) == idx \in 0..LastIndex

\* Trade::get_date of the step's trade
TradeDate ==
    IF trade_result.tag = "TradeIn" THEN trade_result.date_in
    ELSE trade_result.date_out

-----------------------------------------------------------------------------
(* models/trade.rs: the trade resolver *)

TradeType_is_entry(tt) ==
    tt \in {"MarketInLong", "MarketInShort", "OrderInLong", "OrderInShort"}

TradeType_is_stop(tt) == tt \in {"StopLossLong", "StopLossShort"}

\* TradeResult::None
TradeResultNone == [tag |-> "None"]

\* an unwrap() of a missing candle or a missing order: the process aborts
TradePanic == [tag |-> "panic"]

\* helpers/calc.rs calculate_quantity: the position size for the requested
\* trade size at the fill price
calculate_quantity(trade_size, price_in) == trade_size

\* the entry price taken from the bar whatever the order engine
trade_in_price_open(order, current_candle) == current_candle.open

\* price of resolve_trade_in: the triggering order's target for a broker
\* fill, the bar's open otherwise
trade_in_price(order, current_candle) ==
    IF order_engine = "broker"
    THEN IF order # None THEN order[1].target_price ELSE current_candle.open
    ELSE current_candle.open

resolve_trade_in(idx, trade_size, prices, tt, order) ==
    LET i == calculate_trade_index(idx)
    IN IF TradeType_is_entry(tt)
       THEN IF ~HasCandle(i) THEN TradePanic
            ELSE LET spread == prices.spread
                     current_candle == data[i]
                     current_date == current_candle.date
                     id == generate_ts_id(current_date)
                     price == trade_in_price(order, current_candle)
                     ask == IF TradeType_is_long(tt) THEN price + spread ELSE price
                     price_in == IF TradeType_is_long(tt) THEN ask ELSE price
                 IN [tag |-> "TradeIn",
                     id |-> id,
                     index_in |-> IF mode = "Backtest" THEN i ELSE id,
                     origin_price |-> price,
                     price_in |-> price_in,
                     ask |-> ask,
                     spread |-> spread,
                     quantity |-> calculate_quantity(trade_size, price_in),
                     date_in |-> current_date,
                     trade_type |-> tt]
       ELSE TradeResultNone

\* the acceptance test of resolve_trade_out with the stop-loss exemption
\* left out
profit_check_no_exemption(tt, profit) ==
    IF non_profitable_outs THEN TRUE ELSE profit > 0

\* profit_check of resolve_trade_out
profit_check(tt, profit) ==
    IF non_profitable_outs THEN TRUE
    ELSE profit > 0 \/ TradeType_is_stop(tt)

\* the price difference of resolve_trade_out with the direction of the entry
\* trade ignored
trade_profit_long_only(trade_in_type, price_in, price_out) ==
    price_out - price_in

\* the profit of resolve_trade_out that decides the acceptance
trade_profit(trade_in_type, price_in, price_out) ==
    IF TradeType_is_long(trade_in_type) THEN price_out - price_in
    ELSE price_in - price_out

\* helpers/calc.rs calculate_profit: the realized profit of the position
calculate_profit(quantity, price_in, price_out, trade_in_type) ==
    IF TradeType_is_long(trade_in_type) THEN quantity * (price_out - price_in)
    ELSE quantity * (price_in - price_out)

\* helpers/calc.rs calculate_profit_per: profit / price_in, in hundredths
calculate_profit_per(price_in, price_out, trade_in_type) ==
    LET profit == calculate_profit(1, price_in, price_out, trade_in_type)
    IN IF profit >= 0 THEN (profit * 100) \div price_in
       ELSE -(((-profit) * 100) \div price_in)

\* the highest high and the lowest low of the bars index_in..index_out
max_high(index_in, index_out) ==
    LET highs == { data[k].high : k \in index_in..index_out }
    IN CHOOSE h \in highs : \A g \in highs : g <= h

min_low(index_in, index_out) ==
    LET lows == { data[k].low : k \in index_in..index_out }
    IN CHOOSE l \in lows : \A g \in lows : l <= g

\* helpers/calc.rs calculate_runup: the best excursion of the price path
\* between the entry and the exit bar, relative to price_in
calculate_runup(price_in, index_in, index_out, trade_in_type) ==
    IF index_in > index_out THEN 0
    ELSE LET best == IF TradeType_is_long(trade_in_type)
                     THEN max_high(index_in, index_out) - price_in
                     ELSE price_in - min_low(index_in, index_out)
         IN IF best > 0 THEN best ELSE 0

calculate_runup_per(run_up, price_in, trade_in_type) ==
    (run_up * 100) \div price_in

\* helpers/calc.rs calculate_drawdown: the worst excursion of the price path
\* between the entry and the exit bar, relative to price_in
calculate_drawdown(price_in, index_in, index_out, trade_in_type) ==
    IF index_in > index_out THEN 0
    ELSE LET worst == IF TradeType_is_long(trade_in_type)
                      THEN price_in - min_low(index_in, index_out)
                      ELSE max_high(index_in, index_out) - price_in
         IN IF worst > 0 THEN worst ELSE 0

calculate_drawdown_per(draw_down, price_in, trade_in_type) ==
    (draw_down * 100) \div price_in

\* the exit price taken from the bar for every trade type
close_trade_price_open(tt, order, current_candle) == current_candle.open

\* close_trade_price of resolve_trade_out: the triggering order's target for
\* a stop-loss exit, the bar's open otherwise
close_trade_price(tt, order, current_candle) ==
    IF TradeType_is_stop(tt) THEN order[1].target_price
    ELSE current_candle.open

\* a statistic of the closed trade computed in both modes
back_test_statistic_always(statistic) == statistic

\* match execution_mode.is_back_test() { true => statistic, false => 0. }
back_test_statistic(statistic) == IF mode = "Backtest" THEN statistic ELSE 0

resolve_trade_out(idx, prices, trade, tt, order) ==
    LET i == calculate_trade_index(idx)
    IN IF ~HasCandle(i) THEN TradePanic
       ELSE IF TradeType_is_stop(tt) /\ order = None THEN TradePanic
       ELSE
         LET spread == prices.spread
             trade_in_type == trade.trade_type
             current_candle == data[i]
             current_date == current_candle.date
             order_price == IF order_engine = "broker" /\ order # None
                            THEN order[1].target_price
                            ELSE close_trade_price(tt, order, current_candle)
             price_in == trade.price_in
             price_out == IF mode = "Backtest" /\ ~TradeType_is_long(trade_in_type)
                          THEN order_price + spread
                          ELSE order_price
             bid == IF TradeType_is_long(tt) THEN price_out + spread ELSE price_out
             profit == trade_profit(trade_in_type, price_in, price_out)
             run_up == back_test_statistic(
                           calculate_runup(price_in, trade.index_in, i, trade_in_type))
             draw_down == back_test_statistic(
                              calculate_drawdown(price_in, trade.index_in, i, trade_in_type))
         IN IF profit_check(tt, profit)
            THEN IF mode = "Backtest" /\ trade.index_in \notin 0..(NumBars - 1)
                 THEN TradePanic
                 ELSE [tag |-> "TradeOut",
                       id |-> generate_ts_id(current_date),
                       index_in |-> trade.index_in,
                       price_in |-> price_in,
                       trade_type |-> tt,
                       date_in |-> IF mode = "Backtest"
                                   THEN data[trade.index_in].date
                                   ELSE current_date,
                       spread_in |-> trade.spread,
                       ask |-> price_in,
                       index_out |-> i,
                       price_origin |-> trade.price_in,
                       price_out |-> price_out,
                       bid |-> bid,
                       spread_out |-> spread,
                       date_out |-> current_date,
                       profit |-> back_test_statistic(
                                      calculate_profit(trade.quantity, price_in,
                                                       price_out, trade_in_type)),
                       profit_per |-> back_test_statistic(
                                          calculate_profit_per(price_in, price_out,
                                                               trade_in_type)),
                       run_up |-> run_up,
                       run_up_per |-> back_test_statistic(
                                          calculate_runup_per(run_up, price_in,
                                                              trade_in_type)),
                       draw_down |-> draw_down,
                       draw_down_per |-> back_test_statistic(
                                             calculate_drawdown_per(draw_down, price_in,
                                                                    trade_in_type))]
            ELSE TradeResultNone

\* ORDER_ENGINE values
OrderEngines == {"broker", "bot"}

\* the pricing snapshots of the trade-resolver and of the ledger specification
Pricings == { [spread |-> 0], [spread |-> 2] }

LedgerPricings == { [spread |-> 2] }

-----------------------------------------------------------------------------
(* The ledger specification.  The scheduler runs one scan step per bar:    *)
(* expiry, activation, trade resolution with fulfilment, trade close, new  *)
(* orders; then the next bar.                                              *)

Init ==
    /\ mode \in Modes
    /\ data \in DataSets
    /\ index = 0
    /\ orders = <<>>
    /\ position = PositionNone
    /\ order_position = PositionNone
    /\ trade_type = "OrderInLong"
    /\ order_types = <<>>
    /\ batch = <<>>
    /\ aborted = FALSE
    /\ pc = "expiry"
    /\ non_profitable_outs \in BOOLEAN
    /\ order_engine \in OrderEngines
    /\ pricing \in LedgerPricings
    /\ trade_in = None
    /\ trade_result = TradeResultNone
    /\ suppressed = None
    /\ pending_orders = <<>>
    /\ num_pending_orders = <<0, 0, 0>>

LedgerStep(new_ledger, next_pc) ==
    /\ orders' = new_ledger
    /\ pc' = next_pc
    /\ UNCHANGED <<mode, data, index, position, order_position,
                   trade_type, order_types, batch, aborted>>
    /\ UNCHANGED trade_vars
    /\ UNCHANGED query_vars

CancelAllPendingOrders ==
    /\ ~aborted /\ pc = "expiry"
    /\ mode = "Backtest"
    /\ LedgerStep(cancel_all_pending_orders(index, orders, Clock), "resolve")

CancelAllBotPendingOrders ==
    /\ ~aborted /\ pc = "expiry"
    /\ mode = "Live"
    /\ LedgerStep(cancel_all_bot_pending_orders(orders, Clock), "resolve")

\* a resolution that also marks the order it returns as Fulfilled
Resolved_fulfilling(pos, local) ==
    /\ position' = pos
    /\ order_position' = local
    /\ pc' = "trade"
    /\ orders' = IF local.tag = "None" THEN orders
                 ELSE fulfill_trade_order(index, data[index].date, local.order, orders)
    /\ UNCHANGED <<mode, data, index, trade_type, order_types, batch, aborted>>
    /\ UNCHANGED trade_vars
    /\ UNCHANGED query_vars

\* the caller may ask again before it acts on the Position
Resolved(pos, local) ==
    /\ position' = pos
    /\ order_position' = local
    /\ pc' = "trade"
    /\ UNCHANGED <<mode, data, index, orders, trade_type, order_types, batch, aborted>>
    /\ UNCHANGED trade_vars
    /\ UNCHANGED query_vars

ResolveActiveOrders ==
    /\ ~aborted /\ pc \in {"resolve", "trade"}
    /\ mode = "Backtest"
    /\ Resolved(resolve_active_orders(index, orders),
                resolve_loop(FALSE, index, PositionNone, orders))

ResolveBotActiveOrders ==
    /\ ~aborted /\ pc \in {"resolve", "trade"}
    /\ mode = "Live"
    /\ Resolved(resolve_bot_active_orders(index, orders),
                resolve_loop(TRUE, index, PositionNone, orders))

\* the trade types the caller resolves an activated order with
TradeTypeOfEntry(order) ==
    IF order.order_type.kind = "BuyOrderLong" THEN "OrderInLong" ELSE "OrderInShort"

TradeTypeOfExit(order, trade) ==
    IF is_stop(order.order_type)
    THEN (IF TradeType_is_long(trade.trade_type) THEN "StopLossLong" ELSE "StopLossShort")
    ELSE (IF TradeType_is_long(trade.trade_type) THEN "OrderOutLong" ELSE "OrderOutShort")

\* the place in the ledger of the order a Position carries
LedgerPlace(order, os) == CHOOSE i \in 1..Len(os) : os[i] = order

TradeResolved(result, open_trade) ==
    /\ trade_result' = result
    /\ trade_in' = open_trade
    /\ suppressed' = IF position.tag = "MarketOutOrder" /\ result.tag = "None"
                     THEN Some(LedgerPlace(position.order, orders))
                     ELSE IF result.tag = "TradeOut" THEN None
                     ELSE suppressed
    /\ aborted' = (result.tag = "panic")
    /\ pc' = "fulfil"
    /\ UNCHANGED <<mode, data, index, orders, position, order_position,
                   trade_type, order_types, batch,
                   non_profitable_outs, order_engine, pricing>>
    /\ UNCHANGED query_vars

\* an activated entry order opens the trade
ResolveTradeIn ==
    /\ ~aborted /\ pc = "trade"
    /\ position.tag = "MarketInOrder"
    /\ trade_in = None
    /\ LET result == resolve_trade_in(index, 1, pricing,
                         TradeTypeOfEntry(position.order), Some(position.order))
       IN TradeResolved(result,
                        IF result.tag = "TradeIn" THEN Some(result) ELSE trade_in)

\* an activated exit, take-profit or stop-loss order closes the open trade
ResolveTradeOut ==
    /\ ~aborted /\ pc = "trade"
    /\ position.tag = "MarketOutOrder"
    /\ trade_in # None
    /\ LET result == resolve_trade_out(index, pricing, trade_in[1],
                         TradeTypeOfExit(position.order, trade_in[1]),
                         Some(position.order))
       IN TradeResolved(result,
                        IF result.tag = "TradeOut" THEN None ELSE trade_in)

\* the step's Position is not traded
NoTrade ==
    /\ ~aborted /\ pc = "trade"
    /\ LedgerStep(orders, "close")

Triggered == trade_result.tag \in {"TradeIn", "TradeOut"}

\* The linker the caller uses: fulfill_order_and_update_pricing when the
\* broker fills the orders, else fulfill_trade_order (Backtest) or
\* fulfill_bot_order (Live).  The caller may call it again before it goes on.
FulfillTradeOrder ==
    /\ ~aborted /\ pc \in {"fulfil", "close"}
    /\ mode = "Backtest"
    /\ order_engine # "broker"
    /\ Triggered
    /\ LedgerStep(fulfill_trade_order(index, TradeDate, position.order, orders),
                  "close")

FulfillBotOrder ==
    /\ ~aborted /\ pc \in {"fulfil", "close"}
    /\ mode = "Live"
    /\ order_engine # "broker"
    /\ Triggered
    /\ LedgerStep(fulfill_bot_order(TradeDate, position.order, orders), "close")

\* the pending orders follow the price the trade was filled at
FulfillOrderAndUpdatePricing ==
    /\ ~aborted /\ pc = "fulfil"
    /\ order_engine = "broker"
    /\ Triggered
    /\ LedgerStep(fulfill_order_and_update_pricing(index, TradeDate,
                      trade_result.price_in, position.order, orders),
                  "close")

\* the resolver returned TradeResult::None: there is no trade to link
NoFulfil ==
    /\ ~aborted /\ pc = "fulfil"
    /\ ~Triggered
    /\ LedgerStep(orders, "close")

\* the trade was closed in this step
CancelTradePendingOrders ==
    /\ ~aborted /\ pc = "close"
    /\ trade_result.tag = "TradeOut"
    /\ LedgerStep(cancel_trade_pending_orders(TradeDate, orders), "orders")

NoClose ==
    /\ ~aborted /\ pc = "close"
    /\ LedgerStep(orders, "orders")

Placed(result) ==
    /\ Len(orders) + Len(result.orders) <= MaxLedger
    /\ orders' = add_pending(orders, result.orders)
    /\ aborted' = result.panicked
    /\ pc' = "next"
    /\ UNCHANGED <<mode, data, index, position, order_position,
                   trade_type, order_types, batch>>
    /\ UNCHANGED trade_vars
    /\ UNCHANGED query_vars

\* Backtest: the strategy's intents go through prepare_orders into add_pending
PlaceOrders ==
    /\ ~aborted /\ pc = "orders"
    /\ mode = "Backtest"
    /\ HasCandle(index + 1)
    /\ \E tt \in TradeTypes, ots \in LedgerBatches :
         Placed(prepare_orders(index, tt, ots))

\* Live: the same through prepare_bot_orders
PlaceBotOrders ==
    /\ ~aborted /\ pc = "orders"
    /\ mode = "Live"
    /\ \E tt \in TradeTypes, ots \in LedgerBatches :
         Placed(prepare_bot_orders(index, tt, ots))

\* the pending view of the ledger at the end of the step
GetPending ==
    /\ ~aborted /\ pc \in {"orders", "next"}
    /\ pending_orders' = get_pending(orders)
    /\ pc' = "pending"
    /\ UNCHANGED <<mode, data, index, orders, position, order_position,
                   trade_type, order_types, batch, aborted, num_pending_orders>>
    /\ UNCHANGED trade_vars

GetNumPendingOrders ==
    /\ ~aborted /\ pc = "pending"
    /\ num_pending_orders' = get_num_pending_orders(orders)
    /\ pc' = "counted"
    /\ UNCHANGED <<mode, data, index, orders, position, order_position,
                   trade_type, order_types, batch, aborted, pending_orders>>
    /\ UNCHANGED trade_vars

NextBar ==
    /\ ~aborted /\ pc \in {"orders", "next", "pending", "counted"}
    /\ index + 1 <= NumBars - 1
    /\ index' = index + 1
    /\ pc' = "expiry"
    /\ trade_result' = TradeResultNone
    /\ pending_orders' = <<>>
    /\ num_pending_orders' = <<0, 0, 0>>
    /\ UNCHANGED <<mode, data, orders, position, order_position,
                   trade_type, order_types, batch, aborted,
                   non_profitable_outs, order_engine, pricing, trade_in,
                   suppressed>>

Next ==
    \/ CancelAllPendingOrders
    \/ CancelAllBotPendingOrders
    \/ ResolveActiveOrders
    \/ ResolveBotActiveOrders
    \/ ResolveTradeIn
    \/ ResolveTradeOut
    \/ NoTrade
    \/ FulfillTradeOrder
    \/ FulfillBotOrder
    \/ FulfillOrderAndUpdatePricing
    \/ NoFulfil
    \/ CancelTradePendingOrders
    \/ NoClose
    \/ PlaceOrders
    \/ PlaceBotOrders
    \/ GetPending
    \/ GetNumPendingOrders
    \/ NextBar

Spec == Init /\ [][Next]_vars

\* The fair scan over one candle array.  The scheduler keeps stepping while
\* a step is possible: every phase of a scan step runs and the bars advance
\* to the end of the candle array.
InitFair ==
    /\ Init
    /\ data = DataOf(<<Flat, Rise, Spike, Surge>>)
    /\ ~non_profitable_outs

SpecFair == InitFair /\ [][Next]_vars /\ WF_vars(Next)

-----------------------------------------------------------------------------
(* The batch-validation specification: prepare_orders and                  *)
(* prepare_bot_orders applied to every batch of at most MaxBatch intents,  *)
(* at every bar of one candle array.                                       *)

InitPrepare ==
    /\ mode \in Modes
    /\ data = DataOf(<<Flat, Rise, Spike>>)
    /\ index \in 0..(NumBars - 1)
    /\ orders = <<>>
    /\ position = PositionNone
    /\ order_position = PositionNone
    /\ trade_type = "OrderInLong"
    /\ order_types = <<>>
    /\ batch = <<>>
    /\ aborted = FALSE
    /\ pc = "prepare"
    /\ non_profitable_outs = FALSE
    /\ order_engine = "bot"
    /\ pricing \in LedgerPricings
    /\ trade_in = None
    /\ trade_result = TradeResultNone
    /\ suppressed = None
    /\ pending_orders = <<>>
    /\ num_pending_orders = <<0, 0, 0>>

Prepared(tt, ots, result) ==
    /\ trade_type' = tt
    /\ order_types' = ots
    /\ batch' = result.orders
    /\ aborted' = result.panicked
    /\ pc' = "prepared"
    /\ UNCHANGED <<mode, data, index, orders, position, order_position>>
    /\ UNCHANGED trade_vars
    /\ UNCHANGED query_vars

\* instrument.data.get(index + 1).unwrap() panics on the last bar
PrepareOrders ==
    /\ pc = "prepare"
    /\ mode = "Backtest"
    /\ \E tt \in TradeTypes, ots \in BatchesOf(Intents) :
         Prepared(tt, ots,
                  IF HasCandle(index + 1) THEN prepare_orders(index, tt, ots)
                  ELSE [panicked |-> TRUE, orders |-> <<>>])

PrepareBotOrders ==
    /\ pc = "prepare"
    /\ mode = "Live"
    /\ \E tt \in TradeTypes, ots \in BatchesOf(Intents) :
         Prepared(tt, ots, prepare_bot_orders(index, tt, ots))

NextPrepare == PrepareOrders \/ PrepareBotOrders

SpecPrepare == InitPrepare /\ [][NextPrepare]_vars

-----------------------------------------------------------------------------
(* The trade-resolver specification: resolve_trade_in applied to every     *)
(* trade type with and without a triggering order, then resolve_trade_out  *)
(* applied to the trade it opened, at the same or at a later bar.          *)

\* TradeType values other than None
AllTradeTypes ==
    { "MarketInLong", "MarketOutLong", "MarketInShort", "MarketOutShort",
      "OrderInLong", "OrderOutLong", "OrderInShort", "OrderOutShort",
      "StopLossLong", "StopLossShort" }

\* the triggering orders the resolver is called with: Option<&Order>
TriggeringOrders ==
    { None } \cup
    { Some(create_order(0, generate_ts_id(data[1].date), ot, ot.target_price, 1)) :
        ot \in {BuyLong, SellLong} } \cup
    { Some(create_stop_loss_order(FALSE, 0, generate_ts_id(data[1].date), StopLong)) }

InitTrade ==
    /\ mode \in Modes
    /\ data = DataOf(<<Flat, Gap, Spike>>)
    /\ index \in 0..(NumBars - 1)
    /\ orders = <<>>
    /\ position = PositionNone
    /\ order_position = None
    /\ trade_type = "OrderInLong"
    /\ order_types = <<>>
    /\ batch = <<>>
    /\ aborted = FALSE
    /\ pc = "trade_in"
    /\ non_profitable_outs \in BOOLEAN
    /\ order_engine \in OrderEngines
    /\ pricing \in Pricings
    /\ trade_in = None
    /\ trade_result = TradeResultNone
    /\ suppressed = None
    /\ pending_orders = <<>>
    /\ num_pending_orders = <<0, 0, 0>>

\* order_position holds the Option<&Order> the resolver was called with
TradeCall(tt, order, result, open_trade, next_pc) ==
    /\ trade_type' = tt
    /\ order_position' = order
    /\ trade_result' = result
    /\ trade_in' = open_trade
    /\ aborted' = (result.tag = "panic")
    /\ pc' = next_pc
    /\ UNCHANGED <<mode, data, index, orders, position, order_types, batch,
                   non_profitable_outs, order_engine, pricing, suppressed>>
    /\ UNCHANGED query_vars

TradeInCall ==
    /\ ~aborted /\ pc = "trade_in"
    /\ \E tt \in AllTradeTypes, order \in TriggeringOrders :
         LET result == resolve_trade_in(index, 1, pricing, tt, order)
         IN IF result.tag = "TradeIn"
            THEN TradeCall(tt, order, result, Some(result), "trade_out")
            ELSE TradeCall(tt, order, result, trade_in, "in_done")

\* the trade stays open over the bar
TradeBar ==
    /\ ~aborted /\ pc = "trade_out"
    /\ index + 1 <= NumBars - 1
    /\ index' = index + 1
    /\ UNCHANGED <<mode, data, orders, position, order_position,
                   trade_type, order_types, batch, aborted, pc>>
    /\ UNCHANGED trade_vars
    /\ UNCHANGED query_vars

TradeOutCall ==
    /\ ~aborted /\ pc = "trade_out"
    /\ \E tt \in AllTradeTypes, order \in TriggeringOrders :
         TradeCall(tt, order,
                   resolve_trade_out(index, pricing, trade_in[1], tt, order),
                   trade_in, "out_done")

NextTrade == TradeInCall \/ TradeBar \/ TradeOutCall

SpecTrade == InitTrade /\ [][NextTrade]_vars

-----------------------------------------------------------------------------
(* The linker specification: fulfill_trade_order and fulfill_bot_order     *)
(* applied, at the last bar but one, to every ledger of at most MaxLedger  *)
(* Pending orders placed at the earlier bars of one candle array, none of  *)
(* them expired, with every order of the ledger as the triggering order.   *)

LinkOrders ==
    { create_order(idx, generate_ts_id(data[idx + 1].date), ot, ot.target_price, 1) :
        idx \in 0..(NumBars - 3), ot \in {BuyLong, SellLong} }

\* ledgers in insertion order: an order placed at a later bar stands later
LinkLedgers ==
    { os \in UNION { [1..n -> LinkOrders] : n \in 1..MaxLedger } :
        \A i \in 1..(Len(os) - 1) : os[i].index_created <= os[i + 1].index_created }

InitLink ==
    /\ mode \in Modes
    /\ data = DataOf(<<Flat, Rise, Spike>>)
    /\ index = NumBars - 2
    /\ orders \in LinkLedgers
    /\ \E i \in 1..MaxLedger :
         /\ i <= Len(orders)
         /\ position = IF is_entry(orders[i].order_type)
                       THEN MarketInOrder(orders[i])
                       ELSE MarketOutOrder(orders[i])
    /\ order_position = PositionNone
    /\ trade_type = "OrderInLong"
    /\ order_types = <<>>
    /\ batch = <<>>
    /\ aborted = FALSE
    /\ pc = "link"
    /\ non_profitable_outs = FALSE
    /\ order_engine = "bot"
    /\ pricing \in LedgerPricings
    /\ trade_in = None
    /\ trade_result = TradeResultNone
    /\ suppressed = None
    /\ pending_orders = <<>>
    /\ num_pending_orders = <<0, 0, 0>>

Linked(new_ledger) ==
    /\ orders' = new_ledger
    /\ pc' = "linked"
    /\ UNCHANGED <<mode, data, index, position, order_position,
                   trade_type, order_types, batch, aborted>>
    /\ UNCHANGED trade_vars
    /\ UNCHANGED query_vars

LinkTradeOrder ==
    /\ pc = "link" /\ mode = "Backtest"
    /\ Linked(fulfill_trade_order(index, data[index].date, position.order, orders))

LinkBotOrder ==
    /\ pc = "link" /\ mode = "Live"
    /\ Linked(fulfill_bot_order(data[index].date, position.order, orders))

NextLink == LinkTradeOrder \/ LinkBotOrder

SpecLink == InitLink /\ [][NextLink]_vars

-----------------------------------------------------------------------------
(* broker/xtb_stream.rs: the answers of the broker to the four trade       *)
(* requests.  Every request first asks the broker for the instrument's     *)
(* quote; a reply that cannot be read aborts the process.                  *)

\* Xtb::parse_pricing_data: the Pricing built from a getSymbol reply
parse_pricing_data(ask, bid) == [ask |-> ask, bid |-> bid, spread |-> ask - bid]

\* OrderType::is_long
OrderType_is_long(order_type) ==
    order_type.kind \in {"BuyOrderLong", "SellOrderLong", "TakeProfitLong"}

\* Order::size: the size the order was placed with
Order_size(order) == order.quantity

\* a zero profit counted as profitable
is_profitable_or_even(profit) == profit >= 0

\* the local is_profitable of close_trade and close_order
is_profitable(profit) == profit > 0

\* Xtb::open_trade, after get_instrument_pricing answered with `quote`
open_trade(trade, quote, now) ==
    LET price_in == IF TradeType_is_long(trade.trade_type) THEN quote.ask ELSE quote.bid
    IN [tag |-> "TradeInAccepted",
        accepted |-> TRUE,
        data |-> [trade EXCEPT !.id = generate_ts_id(now),
                               !.price_in = price_in,
                               !.ask = quote.ask,
                               !.spread = quote.spread]]

\* Xtb::close_trade
close_trade(trade, non_profitable_out, quote, now) ==
    LET tt == trade.trade_type
        price_in == trade.price_in
        price_out == IF TradeType_is_long(tt) THEN quote.bid ELSE quote.ask
        profit == IF TradeType_is_long(tt) THEN price_out - price_in
                  ELSE price_in - price_out
        accepted == IF non_profitable_out THEN TRUE ELSE is_profitable(profit)
    IN [tag |-> "TradeOutAccepted",
        accepted |-> accepted,
        data |-> [trade EXCEPT !.id = generate_ts_id(now),
                               !.price_out = price_out,
                               !.date_out = now,
                               !.bid = quote.bid,
                               !.ask = quote.ask,
                               !.spread_out = quote.spread]]

\* Xtb::open_order
open_order(order, quote, now) ==
    LET tt == IF OrderType_is_long(order.order_type) THEN "OrderInLong"
              ELSE "OrderInShort"
        price_in == IF TradeType_is_long(tt) THEN quote.ask ELSE quote.bid
    IN [tag |-> "TradeInAccepted",
        accepted |-> TRUE,
        data |-> [tag |-> "TradeIn",
                  id |-> generate_ts_id(now),
                  index_in |-> order.index_created,
                  quantity |-> calculate_quantity(Order_size(order), price_in),
                  origin_price |-> order.origin_price,
                  price_in |-> price_in,
                  ask |-> quote.ask,
                  spread |-> quote.spread,
                  trade_type |-> tt,
                  date_in |-> now]]

\* Xtb::close_order
close_order(trade, order, non_profitable_out, quote, now) ==
    LET tt == trade.trade_type
        price_in == trade.price_in
        price_out == IF TradeType_is_stop(tt)
                     THEN IF TradeType_is_long(tt) THEN order.target_price
                          ELSE order.target_price + quote.spread
                     ELSE IF TradeType_is_long(tt) THEN quote.bid ELSE quote.ask
        profit == IF TradeType_is_long(tt) THEN price_out - price_in
                  ELSE price_in - price_out
        accepted == IF TradeType_is_stop(tt) THEN TRUE
                    ELSE IF non_profitable_out THEN TRUE
                    ELSE is_profitable(profit)
    IN [tag |-> "TradeOutAccepted",
        accepted |-> accepted,
        data |-> [trade EXCEPT !.id = generate_ts_id(now),
                               !.price_out = price_out,
                               !.date_out = now,
                               !.bid = quote.bid,
                               !.ask = quote.ask,
                               !.spread_out = quote.spread]]

(* The broker specification: each of the four requests sent once, with     *)
(* every trade type, entry price, order and quote of the input sets.       *)

\* the entry prices of the trades the requests carry
BrokerPrices == {98, 100, 102}

\* the replies of get_instrument_pricing: a quote with bid <= ask, or None
\* where the reply is missing or unreadable and the unwrap() panics
BrokerReplies ==
    { None } \cup
    { Some(parse_pricing_data(ask, bid)) : ask \in {100, 102}, bid \in {98, 100} }

\* TradeData<TradeIn>.data of an open_trade request
BrokerTradeIns ==
    { [tag |-> "TradeIn", id |-> 0, index_in |-> 0, origin_price |-> p,
       price_in |-> p, ask |-> p, spread |-> 0, quantity |-> 1,
       date_in |-> BarDate(0), trade_type |-> tt] :
        tt \in AllTradeTypes, p \in BrokerPrices }

\* TradeData<TradeOut>.data of a close_trade or close_order request
BrokerTradeOuts ==
    { [tag |-> "TradeOut", id |-> 0, trade_type |-> tt, index_in |-> 0,
       price_in |-> p, ask |-> p, spread_in |-> 0, date_in |-> BarDate(0),
       index_out |-> 1, price_origin |-> p, price_out |-> 0, bid |-> 0,
       spread_out |-> 0, date_out |-> BarDate(1), profit |-> 0,
       profit_per |-> 0, run_up |-> 0, run_up_per |-> 0, draw_down |-> 0,
       draw_down_per |-> 0] :
        tt \in AllTradeTypes, p \in BrokerPrices }

\* TradeData<Order>.data of an open_order or close_order request
BrokerOrders ==
    { create_order(0, 0, ot, ot.target_price, 1) :
        ot \in {BuyLong, SellLong, OrderIntent("BuyOrderShort", <<"Down", 90>>),
                OrderIntent("TakeProfitShort", <<"Down", 98>>)} } \cup
    { create_stop_loss_order(FALSE, 0, 0, ot) :
        ot \in {StopLong, StopLossIntent(<<"Up", 102>>)} }

InitBroker ==
    /\ mode = "Live"
    /\ data = DataOf(<<Flat, Rise, Spike>>)
    /\ index = NumBars - 2
    /\ orders = <<>>
    /\ position = PositionNone
    /\ order_position = None
    /\ trade_type = "OrderInLong"
    /\ order_types = <<>>
    /\ batch = <<>>
    /\ aborted = FALSE
    /\ pc = "broker"
    /\ non_profitable_outs = FALSE
    /\ order_engine = "broker"
    /\ pricing = None
    /\ trade_in = None
    /\ trade_result = TradeResultNone
    /\ suppressed = None
    /\ pending_orders = <<>>
    /\ num_pending_orders = <<0, 0, 0>>

\* trade_in holds the trade of the request, order_position its order,
\* non_profitable_outs its options.non_profitable_out, pricing the reply of
\* get_instrument_pricing and trade_result the answer
BrokerCall(call, trade, order, non_profitable_out, reply, answer) ==
    /\ pc' = call
    /\ trade_in' = trade
    /\ order_position' = order
    /\ non_profitable_outs' = non_profitable_out
    /\ pricing' = reply
    /\ trade_result' = IF reply = None THEN TradePanic ELSE answer
    /\ aborted' = (reply = None)
    /\ UNCHANGED <<mode, data, index, orders, position, trade_type,
                   order_types, batch, order_engine, suppressed>>
    /\ UNCHANGED query_vars

OpenTrade ==
    /\ ~aborted /\ pc = "broker"
    /\ \E trade \in BrokerTradeIns, reply \in BrokerReplies :
         BrokerCall("open_trade", Some(trade), None, non_profitable_outs, reply,
                    open_trade(trade, reply[1], Clock))

CloseTrade ==
    /\ ~aborted /\ pc = "broker"
    /\ \E trade \in BrokerTradeOuts, non_profitable_out \in BOOLEAN,
          reply \in BrokerReplies :
         BrokerCall("close_trade", Some(trade), None, non_profitable_out, reply,
                    close_trade(trade, non_profitable_out, reply[1], Clock))

OpenOrder ==
    /\ ~aborted /\ pc = "broker"
    /\ \E order \in BrokerOrders, reply \in BrokerReplies :
         BrokerCall("open_order", None, Some(order), non_profitable_outs, reply,
                    open_order(order, reply[1], Clock))

CloseOrder ==
    /\ ~aborted /\ pc = "broker"
    /\ \E trade \in BrokerTradeOuts, order \in BrokerOrders,
          non_profitable_out \in BOOLEAN, reply \in BrokerReplies :
         BrokerCall("close_order", Some(trade), Some(order), non_profitable_out,
                    reply,
                    close_order(trade, order, non_profitable_out, reply[1], Clock))

NextBroker == OpenTrade \/ CloseTrade \/ OpenOrder \/ CloseOrder

SpecBroker == InitBroker /\ [][NextBroker]_vars

-----------------------------------------------------------------------------
(* The time-frame specification: the conversions of models/time_frame.rs   *)
(* applied to every time frame, to its number and its name, and to unknown *)
(* numbers and strings; then an order created under the string read.       *)

\* the usize values from_number is applied to besides the results of
\* to_number: the known numbers and their neighbours
TimeFrameNumbers ==
    { 0, 1, 2, 4, 5, 6, 14, 15, 16, 30, 59, 60, 61, 100, 240, 241, 1439, 1440,
      10080, 10081, 43199, 43200, 43201 }

\* the strings from_str and TimeFrame::new are applied to besides the names
TimeFrameStrings ==
    { "M1", "M5", "M15", "M30", "H1", "H4", "D", "W", "MN", "ERR",
      "", "m5", "M2", "M10", "H2", "5", "MN1", " M5", "d", "Y" }

InitTimeFrame ==
    /\ mode = "Backtest"
    /\ data = DataOf(<<Flat, Rise, Spike>>)
    /\ index = 0
    /\ orders = <<>>
    /\ position = PositionNone
    /\ order_position = None
    /\ trade_type = "OrderInLong"
    /\ order_types = <<>>
    /\ batch = <<>>
    /\ aborted = FALSE
    /\ pc = "time_frame"
    /\ non_profitable_outs = FALSE
    /\ order_engine = "bot"
    /\ pricing \in LedgerPricings
    /\ trade_in = None
    /\ trade_result = TradeResultNone
    /\ suppressed = None
    /\ pending_orders = <<>>
    /\ num_pending_orders = <<0, 0, 0>>

\* trade_result holds the conversion's argument and result
Converted(call, result) ==
    /\ pc' = call
    /\ trade_result' = result
    /\ UNCHANGED <<mode, data, index, orders, position, order_position,
                   trade_type, order_types, batch, aborted,
                   non_profitable_outs, order_engine, pricing, trade_in,
                   suppressed>>
    /\ UNCHANGED query_vars

ToNumber ==
    /\ pc = "time_frame"
    /\ \E tf \in TimeFrameTypes :
         Converted("to_number",
                   [tag |-> "to_number", tf |-> tf, number |-> to_number(tf)])

\* from_number of the number to_number answered, or of any other number
FromNumber ==
    \/ /\ pc = "to_number"
       /\ Converted("from_number",
                    [tag |-> "from_number", origin |-> Some(trade_result.tf),
                     number |-> trade_result.number,
                     tf |-> from_number(trade_result.number)])
    \/ /\ pc = "time_frame"
       /\ \E n \in TimeFrameNumbers :
            Converted("from_number",
                      [tag |-> "from_number", origin |-> None, number |-> n,
                       tf |-> from_number(n)])

Fmt ==
    /\ pc = "time_frame"
    /\ \E tf \in TimeFrameTypes :
         Converted("fmt", [tag |-> "fmt", tf |-> tf, name |-> TimeFrameType_fmt(tf)])

\* from_str of the name of a time frame, or of any other string
FromStr ==
    \/ /\ pc = "fmt"
       /\ Converted("from_str",
                    [tag |-> "from_str", origin |-> Some(trade_result.tf),
                     name |-> trade_result.name,
                     tf |-> from_str(trade_result.name)])
    \/ /\ pc = "time_frame"
       /\ \E s \in TimeFrameStrings :
            Converted("from_str",
                      [tag |-> "from_str", origin |-> None, name |-> s,
                       tf |-> from_str(s)])

\* TimeFrame::new of the string from_str was applied to
New ==
    /\ pc = "from_str"
    /\ Converted("new",
                 [tag |-> "new", origin |-> trade_result.origin,
                  name |-> trade_result.name, from_str |-> trade_result.tf,
                  tf |-> TimeFrame_new(trade_result.name)])

\* create_order with the environment's TIME_FRAME reading that string
CreateOrderUnder ==
    /\ pc = "new"
    /\ \E idx \in 0..(NumBars - 2), ot \in {BuyLong, SellLong} :
         LET order == create_order(idx, 0, ot, ot.target_price, 1)
         IN orders' = <<[order EXCEPT !.valid_until =
                            Some(valid_until_under(trade_result.name,
                                                   order.created_at))]>>
    /\ pc' = "created"
    /\ UNCHANGED <<mode, data, index, position, order_position,
                   trade_type, order_types, batch, aborted>>
    /\ UNCHANGED trade_vars
    /\ UNCHANGED query_vars

NextTimeFrame ==
    ToNumber \/ FromNumber \/ Fmt \/ FromStr \/ New \/ CreateOrderUnder

SpecTimeFrame == InitTimeFrame /\ [][NextTimeFrame]_vars

-----------------------------------------------------------------------------
(* Properties *)

\* C1: an order that is Fulfilled or Canceled keeps that status in every
\* later ledger: no ledger operation changes the status of an order that is
\* not Pending, and none removes it.
C1_StatusMonotone ==
    [][\A i \in 1..Len(orders) :
         orders[i].status # "Pending" =>
            /\ i <= Len(orders')
            /\ orders'[i].status = orders[i].status]_vars

\* a cancellation has run over a ledger that holds a Fulfilled order, and an
\* expired order was canceled
C1_Witness ==
    /\ pc = "orders"
    /\ \E i, j \in 1..Len(orders) :
         /\ orders[i].status = "Fulfilled"
         /\ orders[j].status = "Canceled"
         /\ orders[j].updated_at[1] >= orders[i].updated_at[1]

\* C2: every order of a batch returned by prepare_orders / prepare_bot_orders
\* has its target price strictly above the bar's close when its direction is
\* Up and strictly below it when its direction is Down.
C2_TargetBeyondClose ==
    (pc = "prepared" /\ ~aborted) =>
        \A i \in 1..Len(batch) :
            IF batch[i].order_type.direction = "Up"
            THEN batch[i].target_price > data[index].close
            ELSE batch[i].target_price < data[index].close

\* a returned batch with an Up entry and a Down stop-loss
C2_Witness ==
    /\ pc = "prepared" /\ ~aborted
    /\ \E i, j \in 1..Len(batch) :
         /\ is_entry(batch[i].order_type) /\ batch[i].order_type.direction = "Up"
         /\ is_stop(batch[j].order_type) /\ batch[j].order_type.direction = "Down"

\* C3: in a returned batch with a stop-loss and an entry, the stop-loss target
\* is strictly below every long entry's target and strictly above every short
\* entry's target.
C3_StopOnLossSide ==
    (pc = "prepared" /\ ~aborted) =>
        \A i, j \in 1..Len(batch) :
            (is_stop(batch[i].order_type) /\ is_entry(batch[j].order_type)) =>
                IF batch[j].order_type.kind = "BuyOrderLong"
                THEN batch[i].target_price < batch[j].target_price
                ELSE batch[i].target_price > batch[j].target_price

\* the close has already crossed the intent's target price
Crossed(order_type, close_price) ==
    LET target == IF is_stop(order_type) THEN order_type.stop_loss_type
                  ELSE order_type.target_price
    IN IF order_type.direction = "Up" THEN target <= close_price
       ELSE target >= close_price

\* C4: a proposed batch with an order whose target price the close has
\* already crossed is rejected without aborting: prepare_orders returns, and
\* what it returns is the empty batch.
C4_SoftRejection ==
    (/\ pc = "prepared"
     /\ HasCandle(index + 1) \/ mode = "Live"
     /\ \E i \in 1..Len(order_types) : Crossed(order_types[i], data[index].close))
    => (~aborted /\ batch = <<>>)

\* C5: when the proposed batch holds one entry and one exit / take-profit,
\* and the exit target is not strictly above the entry target (long trade
\* type) or not strictly below it (short trade type), the returned batch is
\* empty.
C5_ExitOrderedToEntry ==
    (pc = "prepared" /\ ~aborted) =>
        \A i, j \in 1..Len(order_types) :
            (/\ is_entry(order_types[i])
             /\ is_exit(order_types[j])
             /\ \A k \in 1..Len(order_types) :
                  /\ is_entry(order_types[k]) => k = i
                  /\ is_exit(order_types[k]) => k = j
             /\ IF TradeType_is_long(trade_type)
                THEN ~(order_types[j].target_price > order_types[i].target_price)
                ELSE ~(order_types[j].target_price < order_types[i].target_price))
            => batch = <<>>

\* a valid entry and a valid exit on the wrong side of it, for a long and for
\* a short trade type: the batch came back empty
C5_Witness ==
    /\ pc = "prepared" /\ ~aborted /\ batch = <<>>
    /\ Len(order_types) = 2
    /\ is_entry(order_types[1]) /\ is_exit(order_types[2])
    /\ IF TradeType_is_long(trade_type)
       THEN order_types[2].target_price < order_types[1].target_price
       ELSE order_types[2].target_price > order_types[1].target_price

\* C6: the pending counts of get_num_pending_orders never exceed the ceilings.
C6_CountsWithinCeilings ==
    LET num == get_num_pending_orders(orders)
    IN /\ num[1] <= MAX_BUY_ORDERS
       /\ num[2] <= MAX_SELL_ORDERS
       /\ num[3] <= MAX_STOP_LOSSES

\* C7: the ledger never holds more than MAX_PENDING_ORDERS Pending orders.
C7_PendingWithinCapacity ==
    Cardinality(Pending(orders)) <= MAX_PENDING_ORDERS

\* C8: an order reported as activated was created on a strictly earlier bar:
\* the bar index is above its index_created and the bar's identifier above
\* its id.
C8_ActivationAfterCreation ==
    (pc = "trade" /\ order_position.tag # "None") =>
        /\ index > order_position.order.index_created
        /\ generate_ts_id(data[index].date) > order_position.order.id

\* C9: an Up order is activated only if the bar's high has reached the target
\* and the previous bar's high was strictly below the target; a Down order
\* only if the bar's low has reached the target and the previous bar's low
\* was strictly above it.
C9_CrossesTarget ==
    (pc = "trade" /\ order_position.tag # "None") =>
        LET order == order_position.order
            current_candle == data[index]
            prev_candle == data[get_prev_index(index)]
        IN IF order.order_type.direction = "Up"
           THEN /\ current_candle.high >= order.target_price
                /\ prev_candle.high < order.target_price
           ELSE /\ current_candle.low <= order.target_price
                /\ prev_candle.low > order.target_price

\* the Pending orders whose activation condition holds at the bar
Activated ==
    { i \in Pending(orders) :
        IF mode = "Live" THEN bot_order_activated(index, orders[i])
        ELSE order_activated(index, orders[i]) }

LastActivated == CHOOSE i \in Activated : \A j \in Activated : j <= i

\* C10: the Position of a step, before the exit gate, is built from the
\* activated order that comes last in the ledger (MarketInOrder for an entry,
\* MarketOutOrder otherwise) and is None when no order is activated; the
\* returned Position is that one or None.
C10_LastActivatedWins ==
    pc = "trade" =>
        /\ order_position =
             IF Activated = {} THEN PositionNone
             ELSE IF is_entry(orders[LastActivated].order_type)
                  THEN MarketInOrder(orders[LastActivated])
                  ELSE MarketOutOrder(orders[LastActivated])
        /\ position \in {order_position, PositionNone}

\* several orders are activated in one step, an entry before an exit or a
\* stop-loss
C10_Witness ==
    /\ pc = "trade"
    /\ \E i, j \in Activated :
         /\ i < j
         /\ is_entry(orders[i].order_type)
         /\ ~is_entry(orders[j].order_type)

\* C11: resolve_active_orders returns a MarketOutOrder only when the number
\* of pending buy orders is strictly below MAX_BUY_ORDERS; with as many or
\* more pending buys the MarketOutOrder is replaced by Position::None; a
\* MarketInOrder is returned as it is.
C11_ExitGate ==
    pc = "trade" =>
        LET pending_buy_orders == get_num_pending_orders(orders)[1]
        IN /\ position.tag = "MarketOutOrder" =>
                 pending_buy_orders < MAX_BUY_ORDERS
           /\ (/\ order_position.tag = "MarketOutOrder"
               /\ pending_buy_orders >= MAX_BUY_ORDERS) =>
                 position = PositionNone
           /\ order_position.tag = "MarketInOrder" => position = order_position

DecidingProfit ==
    LET bar == data[calculate_trade_index(index)]
        order == order_position
        price == IF order # None /\ (TradeType_is_stop(trade_type) \/ order_engine = "broker")
                 THEN order[1].target_price
                 ELSE bar.open
        long_in == TradeType_is_long(trade_in[1].trade_type)
        price_out == IF mode = "Backtest" /\ ~long_in THEN price + pricing.spread
                     ELSE price
    IN IF long_in THEN price_out - trade_in[1].price_in
       ELSE trade_in[1].price_in - price_out

\* C13: resolve_trade_out returns TradeResult::None exactly when
\* NON_PROFITABLE_OUTS is false, the profit is not positive and the trade
\* type is not a stop-loss, and a TradeOut in every other case: a stop-loss
\* exit whatever the profit, every exit when NON_PROFITABLE_OUTS is true.
C13_NonProfitableOuts ==
    (pc = "out_done" /\ ~aborted) =>
        /\ trade_result.tag \in {"None", "TradeOut"}
        /\ trade_result.tag = "None" <=>
              /\ ~non_profitable_outs
              /\ DecidingProfit <= 0
              /\ ~TradeType_is_stop(trade_type)

\* a stop-loss exit at a loss went through although non-profitable exits are
\* not allowed
C13_Witness ==
    /\ pc = "out_done" /\ ~aborted
    /\ ~non_profitable_outs
    /\ TradeType_is_stop(trade_type)
    /\ DecidingProfit < 0
    /\ trade_result.tag = "TradeOut"

\* the order whose exit was suppressed meets its activation condition at the
\* bar
SuppressedActivated ==
    /\ suppressed # None
    /\ IF mode = "Live" THEN bot_order_activated(index, orders[suppressed[1]])
       ELSE order_activated(index, orders[suppressed[1]])

\* a resolution step of the scan, the first call of the step
ResolutionStep == pc = "resolve" /\ pc' = "trade"

\* the resolver has just suppressed the exit of the step's Position
SuppressionStep ==
    /\ pc = "trade" /\ pc' = "fulfil"
    /\ position.tag = "MarketOutOrder"
    /\ trade_result'.tag = "None"

\* resolve_trade_out suppressing an exit leaves the ledger unchanged and the
\* triggering order Pending, up to the end of the trade phase
SuppressionKeepsLedger ==
    /\ SuppressionStep =>
         /\ orders' = orders
         /\ orders'[suppressed'[1]] = position.order
         /\ orders'[suppressed'[1]].status = "Pending"
    /\ (pc = "fulfil" /\ trade_result.tag = "None") => orders' = orders

\* C14 as stated: a suppressed exit leaves the ledger unchanged and its
\* order Pending, and on every later step in which the order's activation
\* condition holds again resolve_active_orders returns it again.
C14_SuppressedExitRetried ==
    [][/\ SuppressionKeepsLedger
       /\ (ResolutionStep /\ SuppressedActivated) =>
             position' = MarketOutOrder(orders[suppressed[1]])]_vars

\* C14 amended: a suppressed exit leaves the ledger unchanged and its order
\* Pending; on a later step resolve_active_orders returns the order again
\* when it is still Pending, its activation condition holds, no Pending order
\* after it in the ledger is activated at the bar, and the exit gate lets a
\* MarketOutOrder through.
C14_SuppressedExitRetriedWhilePending ==
    [][/\ SuppressionKeepsLedger
       /\ (/\ ResolutionStep
           /\ SuppressedActivated
           /\ orders[suppressed[1]].status = "Pending"
           /\ \A j \in Activated : j <= suppressed[1]
           /\ get_num_pending_orders(orders)[1] # MAX_BUY_ORDERS) =>
             position' = MarketOutOrder(orders[suppressed[1]])]_vars

\* the order of a suppressed exit is returned again at a later bar, where an
\* order before it in the ledger is activated as well
C14_Witness ==
    /\ pc = "trade"
    /\ suppressed # None
    /\ position = MarketOutOrder(orders[suppressed[1]])
    /\ \E i \in Activated : i < suppressed[1]

\* the Pending orders of the ledger whose valid_until the date has reached
ExpiredAt(date) ==
    { i \in Pending(orders) : date >= orders[i].valid_until[1] }

\* C15: the Backtest expiry step removes every Pending order whose
\* valid_until is not later than the bar's date: the ledger after the step
\* is the ledger before it without those orders, the others in their order.
C15_BacktestExpiryRemoves ==
    [][(pc = "expiry" /\ pc' = "resolve" /\ mode = "Backtest") =>
          LET expired == ExpiredAt(data[index].date)
          IN /\ Len(orders') = Len(orders) - Cardinality(expired)
             /\ orders' = SelectSeq(orders,
                   LAMBDA o : ~(/\ o.status = "Pending"
                                /\ data[index].date >= o.valid_until[1]))]_vars

\* C16: the Live expiry step turns every Pending order whose valid_until is
\* at or before the current time into Canceled with updated_at set, at its
\* place in the ledger, and leaves every other order and the length of the
\* ledger unchanged.
C16_LiveExpiryMarksCanceled ==
    [][(pc = "expiry" /\ pc' = "resolve" /\ mode = "Live") =>
          /\ Len(orders') = Len(orders)
          /\ \A i \in 1..Len(orders) :
               IF i \in ExpiredAt(Clock)
               THEN /\ orders'[i].status = "Canceled"
                    /\ orders'[i].updated_at # None
                    /\ orders'[i] = [orders[i] EXCEPT !.status = "Canceled",
                                                      !.updated_at = orders'[i].updated_at]
               ELSE orders'[i] = orders[i]]_vars

\* a Live expiry step has canceled an order at the current time, in a ledger
\* that holds an order it left alone
C16_Witness ==
    /\ mode = "Live" /\ pc = "resolve"
    /\ \E i, j \in 1..Len(orders) :
         /\ orders[i].status = "Canceled"
         /\ orders[i].updated_at = Some(Clock)
         /\ orders[j].status # "Canceled"

\* C17: cancel_trade_pending_orders cancels the Pending orders of the closed
\* trade, those of one trade_id, setting updated_at to the trade's date, and
\* leaves the orders that are not Pending or that have another trade_id
\* unchanged.
C17_CloseCancelsOwnOrders ==
    [][(pc = "close" /\ pc' = "orders" /\ orders' # orders) =>
          \E t \in { orders[i].trade_id : i \in 1..Len(orders) } :
             /\ Len(orders') = Len(orders)
             /\ \A i \in 1..Len(orders) :
                  orders'[i] =
                     IF orders[i].status = "Pending" /\ orders[i].trade_id = t
                     THEN [orders[i] EXCEPT !.status = "Canceled",
                                            !.updated_at = Some(trade_result.date_out)]
                     ELSE orders[i]]_vars

\* the first Pending order of the triggering order's type, 0 when there is
\* none
FirstMatch ==
    LET hits == { i \in Pending(orders) :
                    orders[i].order_type = position.order.order_type }
    IN IF hits = {} THEN 0 ELSE CHOOSE i \in hits : \A j \in hits : i <= j

\* a first call of fulfill_trade_order (Backtest) or fulfill_bot_order (Live)
\* for the step's trade
LinkStep ==
    /\ pc = "fulfil" /\ pc' = "close"
    /\ Triggered
    /\ order_engine # "broker"

\* C18 as stated: the first Pending order of the triggering order's type
\* becomes Fulfilled, with index_fulfilled the given index and updated_at and
\* full_filled_at the trade's date, under fulfill_trade_order and under
\* fulfill_bot_order alike; nothing else in the ledger changes.
C18_FulfilsFirstMatch ==
    [][(LinkStep /\ FirstMatch # 0) =>
          orders' = [orders EXCEPT ![FirstMatch] =
                        [@ EXCEPT !.status = "Fulfilled",
                                  !.index_fulfilled = index,
                                  !.updated_at = Some(TradeDate),
                                  !.full_filled_at = Some(TradeDate)]]]_vars

\* C18 amended: as stated for fulfill_trade_order; fulfill_bot_order, which
\* takes no index, sets the status and the two timestamps and leaves
\* index_fulfilled as it is.
C18_FulfilsFirstMatchBotKeepsIndex ==
    [][(LinkStep /\ FirstMatch # 0) =>
          orders' = [orders EXCEPT ![FirstMatch] =
                        [@ EXCEPT !.status = "Fulfilled",
                                  !.index_fulfilled =
                                      IF mode = "Backtest" THEN index ELSE @,
                                  !.updated_at = Some(TradeDate),
                                  !.full_filled_at = Some(TradeDate)]]]_vars

\* an order has been linked to the step's trade while a Pending order of the
\* same type stands after it in the ledger
C18_Witness ==
    /\ pc = "close" /\ Triggered /\ order_engine # "broker"
    /\ \E i, j \in 1..Len(orders) :
         /\ i < j
         /\ orders[i].status = "Fulfilled"
         /\ orders[i].updated_at = Some(TradeDate)
         /\ orders[j].status = "Pending"
         /\ orders[j].order_type = orders[i].order_type

\* C19: with no Pending order of the triggering order's type in the ledger,
\* fulfill_trade_order and fulfill_bot_order return without failing and leave
\* the ledger unchanged.
C19_NoMatchNoChange ==
    [][(/\ pc \in {"fulfil", "close"} /\ pc' = "close"
        /\ Triggered
        /\ order_engine # "broker"
        /\ FirstMatch = 0) =>
          (orders' = orders /\ ~aborted')]_vars

\* the linker has fulfilled the only Pending order of the type: a second
\* call with the same triggering order finds none, in a ledger that still
\* holds a Pending order
C19_Witness ==
    /\ pc = "close" /\ Triggered /\ order_engine # "broker"
    /\ FirstMatch = 0
    /\ Pending(orders) # {}

\* the identity of an order: the fields no ledger operation writes
Identity(order) ==
    <<order.id, order.trade_id, order.index_created, order.order_type.kind,
      order.created_at>>

\* C20: in Live mode every ledger operation keeps the orders of the ledger at
\* their places: the ledger before the step is, order by order, a prefix of
\* the ledger after it, and new orders come after it.
C20_AppendOnly ==
    [][mode = "Live" =>
          /\ Len(orders') >= Len(orders)
          /\ \A i \in 1..Len(orders) : Identity(orders'[i]) = Identity(orders[i])]_vars

\* a Live ledger that grew by two batches of different bars and holds a
\* Canceled and a Fulfilled order
C20_Witness ==
    /\ mode = "Live"
    /\ \E i, j, k \in 1..Len(orders) :
         /\ i < j
         /\ orders[i].created_at < orders[j].created_at
         /\ orders[i].status = "Fulfilled"
         /\ orders[k].status = "Canceled"

-----------------------------------------------------------------------------
(* Claims on the trade resolver: entries *)

\* a call of resolve_trade_in that returned
TradeInStep == pc = "trade_in" /\ pc' # "trade_in" /\ ~aborted'

\* the bar resolve_trade_in fills on: the next bar in Backtest, the current
\* bar in Live
FillBar == IF mode = "Backtest" THEN index + 1 ELSE index

\* C21: resolve_trade_in yields a TradeIn only for the entry trade types and
\* TradeResult::None for every other trade type; the fill bar is
\* current_index + 1 in Backtest and current_index in Live, and index_in is
\* that bar index.
C21_EntryOnFillBar ==
    [][TradeInStep =>
        /\ trade_result'.tag \in {"TradeIn", "None"}
        /\ trade_result'.tag = "TradeIn" <=>
              trade_type' \in {"MarketInLong", "MarketInShort",
                               "OrderInLong", "OrderInShort"}
        /\ trade_result'.tag = "TradeIn" =>
              /\ trade_result'.date_in = data[FillBar].date
              /\ trade_result'.index_in = FillBar]_vars

\* C21, amended: as C21, except that index_in is the fill bar's index in
\* Backtest only; in Live index_in is the trade's time-derived id.
C21_EntryOnFillBarLiveId ==
    [][TradeInStep =>
        /\ trade_result'.tag \in {"TradeIn", "None"}
        /\ trade_result'.tag = "TradeIn" <=>
              trade_type' \in {"MarketInLong", "MarketInShort",
                               "OrderInLong", "OrderInShort"}
        /\ trade_result'.tag = "TradeIn" =>
              /\ trade_result'.date_in = data[FillBar].date
              /\ trade_result'.index_in =
                    IF mode = "Backtest" THEN FillBar ELSE trade_result'.id]_vars

\* a Live entry resolved on a bar whose index is not its time-derived id
C21_Witness ==
    /\ mode = "Live" /\ ~aborted
    /\ pc = "trade_out"
    /\ trade_result.tag = "TradeIn"
    /\ trade_result.index_in = trade_result.id
    /\ trade_result.date_in = data[index].date
    /\ trade_result.index_in # index

\* C22: in resolve_trade_in the fill price is the triggering order's
\* target_price whenever a triggering order is supplied and otherwise the
\* fill bar's open; a long entry gets ask = price + spread and
\* price_in = ask, a short entry gets price_in = price.
C22_FillPrice ==
    [][(TradeInStep /\ trade_result'.tag = "TradeIn") =>
        LET order == order_position'
            price == IF order # None THEN order[1].target_price
                     ELSE data[FillBar].open
            long == trade_type' \in {"MarketInLong", "OrderInLong"}
        IN /\ trade_result'.origin_price = price
           /\ long => /\ trade_result'.ask = price + pricing.spread
                      /\ trade_result'.price_in = trade_result'.ask
           /\ ~long => trade_result'.price_in = price]_vars

\* C22, amended: the fill price is the triggering order's target_price when
\* a triggering order is supplied and ORDER_ENGINE is "broker", and the fill
\* bar's open otherwise; ask and price_in as in C22.
C22_FillPriceBroker ==
    [][(TradeInStep /\ trade_result'.tag = "TradeIn") =>
        LET order == order_position'
            price == IF order # None /\ order_engine = "broker"
                     THEN order[1].target_price
                     ELSE data[FillBar].open
            long == trade_type' \in {"MarketInLong", "OrderInLong"}
        IN /\ trade_result'.origin_price = price
           /\ long => /\ trade_result'.ask = price + pricing.spread
                      /\ trade_result'.price_in = trade_result'.ask
           /\ ~long => trade_result'.price_in = price]_vars

\* a long broker entry filled at its order's target plus the spread, the
\* target being off the bar's open
C22_Witness ==
    /\ pc = "trade_out" /\ ~aborted
    /\ trade_result.tag = "TradeIn"
    /\ trade_type = "OrderInLong"
    /\ order_engine = "broker" /\ pricing.spread = 2
    /\ order_position # None
    /\ order_position[1].target_price # 100
    /\ trade_result.price_in = order_position[1].target_price + 2

-----------------------------------------------------------------------------
(* Claims on the trade resolver: exits *)

\* a call of resolve_trade_out has returned
TradeOutDone == pc = "out_done" /\ ~aborted

Sign(n) == IF n > 0 THEN 1 ELSE IF n < 0 THEN -1 ELSE 0

\* the difference of the prices of an emitted TradeOut, in the direction of
\* the entry trade
DirectedDifference ==
    IF trade_in[1].trade_type \in {"MarketInLong", "OrderInLong"}
    THEN trade_result.price_out - trade_result.price_in
    ELSE trade_result.price_in - trade_result.price_out

\* C23: the profit that decides the acceptance of an exit is
\* price_out - price_in for a long entry and price_in - price_out for a short
\* entry, and the profit recorded in a Backtest TradeOut has the sign of that
\* difference.
C23_ProfitDirection ==
    TradeOutDone =>
        /\ (trade_result.tag = "TradeOut" /\ ~non_profitable_outs
              /\ trade_type \notin {"StopLossLong", "StopLossShort"})
             => DirectedDifference > 0
        /\ (trade_result.tag = "TradeOut" /\ mode = "Backtest")
             => Sign(trade_result.profit) = Sign(DirectedDifference)
        /\ trade_result.tag = "None" => DecidingProfit <= 0

\* a short entry closed at a loss in Backtest: the recorded profit is
\* price_in - price_out and negative
C23_Witness ==
    /\ TradeOutDone /\ mode = "Backtest"
    /\ trade_in[1].trade_type = "OrderInShort"
    /\ trade_result.tag = "TradeOut"
    /\ trade_result.price_out > trade_result.price_in
    /\ trade_result.profit = trade_result.price_in - trade_result.price_out

\* C24: in Live every TradeOut of resolve_trade_out has profit, profit_per,
\* run_up, run_up_per, draw_down and draw_down_per equal to zero whatever
\* the prices, and the exit is nevertheless accepted or suppressed on the
\* real price difference.
C24_LiveStatisticsZero ==
    (TradeOutDone /\ mode = "Live") =>
        /\ trade_result.tag = "TradeOut" =>
              /\ trade_result.profit = 0
              /\ trade_result.profit_per = 0
              /\ trade_result.run_up = 0
              /\ trade_result.run_up_per = 0
              /\ trade_result.draw_down = 0
              /\ trade_result.draw_down_per = 0
        /\ (~non_profitable_outs
              /\ trade_type \notin {"StopLossLong", "StopLossShort"}) =>
              (trade_result.tag = "TradeOut" <=> DecidingProfit > 0)

\* a Live exit whose prices differ went through with a zero profit
C24_Witness ==
    /\ TradeOutDone /\ mode = "Live"
    /\ ~non_profitable_outs
    /\ trade_type = "OrderOutLong"
    /\ trade_result.tag = "TradeOut"
    /\ trade_result.price_out > trade_result.price_in
    /\ trade_result.profit = 0

\* C25: in resolve_trade_out the exit price is the triggering order's
\* target_price for a stop-loss exit, and for any exit with a triggering
\* order when ORDER_ENGINE is "broker", and the exit bar's open otherwise;
\* the spread is added to price_out only when the entry trade was short and
\* the mode is Backtest; bid = price_out + spread for the long exit types
\* and bid = price_out for the short ones.
C25_ExitPrice ==
    (TradeOutDone /\ trade_result.tag = "TradeOut") =>
        LET order == order_position
            stop == trade_type \in {"StopLossLong", "StopLossShort"}
            exit == IF stop \/ (order # None /\ order_engine = "broker")
                    THEN order[1].target_price
                    ELSE data[trade_result.index_out].open
            short_in == trade_in[1].trade_type \in {"MarketInShort", "OrderInShort"}
            long_out == trade_type \in {"MarketOutLong", "OrderOutLong", "StopLossLong"}
            short_out == trade_type \in {"MarketOutShort", "OrderOutShort",
                                         "StopLossShort"}
        IN /\ trade_result.index_out = IF mode = "Backtest" THEN index + 1 ELSE index
           /\ trade_result.price_out =
                 IF short_in /\ mode = "Backtest" THEN exit + pricing.spread
                 ELSE exit
           /\ long_out => trade_result.bid = trade_result.price_out + pricing.spread
           /\ short_out => trade_result.bid = trade_result.price_out

\* a stop-loss exit of a short entry in Backtest with a bot engine: the
\* order's target plus the spread is the exit price, a short exit type has
\* bid = price_out
C25_Witness ==
    /\ TradeOutDone /\ mode = "Backtest" /\ order_engine = "bot"
    /\ pricing.spread = 2
    /\ trade_in[1].trade_type = "OrderInShort"
    /\ trade_type = "StopLossShort"
    /\ trade_result.tag = "TradeOut"
    /\ trade_result.price_out = order_position[1].target_price + 2
    /\ trade_result.price_out # data[trade_result.index_out].open + 2
    /\ trade_result.bid = trade_result.price_out

-----------------------------------------------------------------------------
(* Claims on the pending view of the ledger *)

\* the last MAX_PENDING_ORDERS entries of the ledger, in ledger order
LastEntries ==
    SubSeq(orders,
           IF Len(orders) > MAX_PENDING_ORDERS
           THEN Len(orders) - MAX_PENDING_ORDERS + 1 ELSE 1,
           Len(orders))

IsPending(order) == order.status = "Pending"

\* C26: get_pending returns the Pending orders among the most recent
\* MAX_PENDING_ORDERS ledger entries, in chronological (ledger insertion)
\* order, oldest first.
C26_PendingOldestFirst ==
    (pc \in {"pending", "counted"}) =>
        pending_orders = SelectSeq(LastEntries, IsPending)

\* C27: get_num_pending_orders returns (buys, sells + take-profits,
\* stop-losses), each the number of Pending orders of the category among the
\* last MAX_PENDING_ORDERS ledger entries; Fulfilled and Canceled orders are
\* not counted, and the three sum to the length of get_pending of the same
\* ledger.
C27_CountsPendingInWindow ==
    (pc = "counted") =>
        LET pending == SelectSeq(LastEntries, IsPending)
            buys == SelectSeq(pending, LAMBDA o :
                        o.order_type.kind \in {"BuyOrderLong", "BuyOrderShort"})
            sells == SelectSeq(pending, LAMBDA o :
                        o.order_type.kind \in {"SellOrderLong", "SellOrderShort",
                                               "TakeProfitLong", "TakeProfitShort"})
            stops == SelectSeq(pending, LAMBDA o : o.order_type.kind = "StopLoss")
        IN /\ num_pending_orders = <<Len(buys), Len(sells), Len(stops)>>
           /\ num_pending_orders[1] + num_pending_orders[2] + num_pending_orders[3]
                 = Len(pending_orders)

\* a window holding a Pending and a Fulfilled or Canceled order, behind an
\* older Pending order that the window leaves out
C27_Witness ==
    /\ pc = "counted"
    /\ Len(orders) > MAX_PENDING_ORDERS
    /\ \E i \in 1..Len(LastEntries) : LastEntries[i].status # "Pending"
    /\ \E i \in 1..Len(LastEntries) : LastEntries[i].status = "Pending"
    /\ orders[1].status = "Pending"
    /\ num_pending_orders[1] + num_pending_orders[2] + num_pending_orders[3] = 1

-----------------------------------------------------------------------------
(* Claims on missing data and on the frame of the ledger operations *)

\* C28: when no candle exists at the index a resolution needs (Backtest on
\* the last bar), or a stop-loss exit is requested without a triggering
\* order, resolve_trade_in and resolve_trade_out yield a no-trade result
\* instead of failing or producing a price.
C28_MissingDataNoTrade ==
    /\ (pc = "in_done" /\ ~HasCandle(FillBar))
          => (~aborted /\ trade_result = TradeResultNone)
    /\ (pc = "out_done"
          /\ (\/ ~HasCandle(FillBar)
              \/ (trade_type \in {"StopLossLong", "StopLossShort"}
                    /\ order_position = None)))
          => (~aborted /\ trade_result = TradeResultNone)

\* the fields of an order no ledger operation is claimed to touch
CreatedFields(order) ==
    [order EXCEPT !.status = "Pending", !.updated_at = None,
                  !.full_filled_at = None, !.index_fulfilled = 0]

\* the order was canceled or fulfilled in the step
StatusTransition(old, new) ==
    old.status = "Pending" /\ new.status \in {"Canceled", "Fulfilled"}

\* C29: after an order is created, the only mutations a ledger operation
\* applies to it are the transition to Canceled or to Fulfilled with the
\* timestamps and index_fulfilled; target_price and origin_price never
\* change, fulfill_order_and_update_pricing included.
C29_OnlyStatusMutations ==
    [][/\ Len(orders') >= Len(orders)
       /\ \A i \in 1..Len(orders) :
            /\ CreatedFields(orders'[i]) = CreatedFields(orders[i])
            /\ orders'[i] # orders[i] => StatusTransition(orders[i], orders'[i])]_vars

\* a step of fulfill_order_and_update_pricing
RepricingStep ==
    /\ pc = "fulfil" /\ pc' = "close"
    /\ order_engine = "broker"
    /\ trade_result.tag \in {"TradeIn", "TradeOut"}

\* C29, amended: as C29, except that fulfill_order_and_update_pricing
\* reprices every order still Pending after the fulfilment: origin_price
\* becomes the trade's price_in and target_price moves by the difference of
\* price_in and the triggering order's target_price.  No other operation
\* and no other field is concerned.
C29_OnlyStatusMutationsAndRepricing ==
    [][/\ Len(orders') >= Len(orders)
       /\ \A i \in 1..Len(orders) :
            LET old == orders[i]
                new == orders'[i]
                diff == trade_result.price_in - position.order.target_price
            IN IF RepricingStep /\ new.status = "Pending"
               THEN new = [old EXCEPT !.origin_price = trade_result.price_in,
                                      !.target_price = old.target_price + diff]
               ELSE /\ CreatedFields(new) = CreatedFields(old)
                    /\ new # old => StatusTransition(old, new)]_vars

\* a broker entry was filled off its order's target and a Pending exit order
\* was moved by the difference
C29_Witness ==
    /\ pc = "close" /\ ~aborted
    /\ order_engine = "broker"
    /\ trade_result.tag = "TradeIn"
    /\ \E i \in 1..Len(orders) :
         /\ orders[i].status = "Pending"
         /\ orders[i].order_type.kind = "SellOrderLong"
         /\ orders[i].origin_price = trade_result.price_in
         /\ orders[i].target_price = orders[i].order_type.target_price + pricing.spread

-----------------------------------------------------------------------------
(* Claims on the scan: exits and open positions *)

\* an entry order of the ledger has been fulfilled
EntryFulfilled ==
    \E i \in 1..Len(orders) :
        /\ orders[i].order_type.kind \in {"BuyOrderLong", "BuyOrderShort"}
        /\ orders[i].status = "Fulfilled"

\* C30: in any run of steps resolve_active_orders returns a MarketOutOrder
\* only if an entry order has been Fulfilled before and its position has not
\* been closed since: no exit is signalled when no position is open.
C30_ExitOnlyWithOpenPosition ==
    (pc = "trade" /\ position.tag = "MarketOutOrder") =>
        (EntryFulfilled /\ trade_in # None)

-----------------------------------------------------------------------------
(* Claims on the life of an order *)

\* the date of the last bar of the candle array
LastBarDate == data[NumBars - 1].date

\* the order at place i is Pending and its deadline falls within the array
PendingWithDeadline(i) ==
    /\ i <= Len(orders)
    /\ orders[i].status = "Pending"
    /\ orders[i].valid_until[1] <= LastBarDate

LeftPending(i) == i <= Len(orders) /\ orders[i].status # "Pending"

\* an expiry step
ExpiryStep == pc = "expiry" /\ pc' = "resolve"

\* C31: every Pending order eventually leaves the Pending state.  With the
\* expiry run at every step and the bars advancing, an order becomes Canceled
\* at the first step whose bar date is at or after its valid_until, the
\* creation bar's date plus VALID_UNTIL_BARS time-frame periods, unless it
\* was fulfilled or canceled before, and the expiry never cancels it at a
\* step whose bar date is earlier.
C31_PendingEventuallyLeaves ==
    /\ [](\A i \in 1..Len(orders) :
            orders[i].valid_until = Some(orders[i].created_at + 5 * VALID_UNTIL_BARS))
    /\ [][ExpiryStep =>
            \A i \in 1..Len(orders) :
                orders[i].status = "Pending" =>
                    (orders'[i].status = "Canceled"
                        <=> data[index].date >= orders[i].valid_until[1])]_vars
    /\ \A i \in 1..MaxLedger :
            PendingWithDeadline(i) ~> (LeftPending(i) \/ aborted)

\* the expiry has canceled an order at the bar its deadline falls on
C31_Witness ==
    /\ pc = "resolve" /\ ~aborted
    /\ \E i \in 1..Len(orders) :
         /\ orders[i].status = "Canceled"
         /\ orders[i].valid_until[1] = data[index].date
         /\ orders[i].updated_at = Some(Clock)
         /\ orders[i].full_filled_at = None

\* C32: the order fulfill_trade_order or fulfill_bot_order marks Fulfilled
\* is the triggering order itself: with the triggering order a Pending
\* member of the ledger, the entry that becomes Fulfilled has the id of the
\* triggering order, also when several Pending orders share its order_type.
C32_FulfilsTriggeringOrder ==
    [][(pc = "link" /\ pc' = "linked") =>
          \A i \in 1..Len(orders) :
              (orders[i].status = "Pending" /\ orders'[i].status = "Fulfilled")
                  => orders'[i].id = position.order.id]_vars

-----------------------------------------------------------------------------
(* Claims on the resolution of a step *)

\* C33: a step in which a Pending entry order is activated never resolves
\* to Position::None: resolve_active_orders returns MarketInOrder or
\* MarketOutOrder, also when an exit or a stop-loss later in the ledger is
\* activated in the step.
C33_ActivatedEntryResolves ==
    (pc = "trade" /\ \E i \in Activated : is_entry(orders[i].order_type))
        => position.tag \in {"MarketInOrder", "MarketOutOrder"}

\* the activation condition of the order at place i holds at the bar,
\* whatever its status
PriceCrossed(i) ==
    IF mode = "Live" THEN bot_order_activated(index, orders[i])
    ELSE order_activated(index, orders[i])

\* C34: the order carried by a MarketInOrder or MarketOutOrder that
\* resolve_active_orders / resolve_bot_active_orders returns is Pending in
\* the ledger at that step: a Fulfilled or Canceled order is never activated
\* again, whatever the later prices.
C34_ActivatedOrderIsPending ==
    pc = "trade" =>
        /\ position.tag # "None" =>
              /\ position.order.status = "Pending"
              /\ \E i \in 1..Len(orders) : orders[i] = position.order
        /\ order_position.tag # "None" =>
              /\ order_position.order.status = "Pending"
              /\ \E i \in 1..Len(orders) : orders[i] = order_position.order

\* the prices cross the target of a Fulfilled or Canceled order again, after
\* the last of the Pending orders they activate, and a Pending order is
\* returned
C34_Witness ==
    /\ pc = "trade"
    /\ position.tag # "None"
    /\ position.order.status = "Pending"
    /\ \E i, j \in 1..Len(orders) :
         /\ i < j
         /\ orders[i] = position.order
         /\ orders[j].status # "Pending"
         /\ PriceCrossed(j)

-----------------------------------------------------------------------------
(* Claims on batches without an entry *)

\* C35: a proposed batch with no entry order (exits / take-profits, with or
\* without a stop-loss) is never discarded by the batch-level checks of
\* prepare_orders and prepare_bot_orders, for the long and for the short
\* trade types: every individually valid order of the batch is returned.
C35_ExitOnlyBatchKept ==
    (/\ pc = "prepared" /\ ~aborted
     /\ \A i \in 1..Len(order_types) : ~is_entry(order_types[i]))
    => /\ Len(batch) = Len(order_types)
       /\ \A i \in 1..Len(batch) : batch[i].order_type = order_types[i]

\* C36: in every reachable ledger the timestamps agree with the status: a
\* Pending order has no updated_at, no full_filled_at and index_fulfilled 0;
\* a Canceled order has updated_at set and no full_filled_at; a Fulfilled
\* order has updated_at and full_filled_at set and equal.
C36_TimestampsAgreeWithStatus ==
    \A i \in 1..Len(orders) :
       /\ orders[i].status = "Pending"
             => /\ orders[i].updated_at = None
                /\ orders[i].full_filled_at = None
                /\ orders[i].index_fulfilled = 0
       /\ orders[i].status = "Canceled"
             => /\ orders[i].updated_at # None
                /\ orders[i].full_filled_at = None
       /\ orders[i].status = "Fulfilled"
             => /\ orders[i].updated_at # None
                /\ orders[i].full_filled_at # None
                /\ orders[i].updated_at = orders[i].full_filled_at

\* a ledger holding a Pending, a Canceled and a Fulfilled order at once
C36_Witness ==
    /\ ~aborted
    /\ \E i \in 1..Len(orders) : orders[i].status = "Pending"
    /\ \E i \in 1..Len(orders) : orders[i].status = "Canceled"
    /\ \E i \in 1..Len(orders) : orders[i].status = "Fulfilled"

\* the profit of the answered exit as the claim states it: price_out -
\* price_in for a long trade type, price_in - price_out for a short one
BrokerProfit ==
    LET d == trade_result.data
    IN IF d.trade_type \in {"MarketInLong", "MarketOutLong", "OrderInLong",
                            "OrderOutLong", "StopLossLong"}
       THEN d.price_out - d.price_in
       ELSE d.price_in - d.price_out

BrokerStopExit == trade_result.data.trade_type \in {"StopLossLong", "StopLossShort"}

\* C37: the broker's close_order accepts every stop-loss exit whatever the
\* profit and a non-stop exit exactly when non_profitable_out is true or the
\* profit is strictly positive; close_trade applies the same rule without
\* the stop-loss exemption; open_trade and open_order always answer
\* accepted = true.
C37_BrokerAcceptance ==
    ~aborted =>
       /\ pc = "close_order" =>
             /\ BrokerStopExit => trade_result.accepted
             /\ ~BrokerStopExit =>
                   (trade_result.accepted <=> (non_profitable_outs \/ BrokerProfit > 0))
       /\ pc = "close_trade" =>
             (trade_result.accepted <=> (non_profitable_outs \/ BrokerProfit > 0))
       /\ pc \in {"open_trade", "open_order"} => trade_result.accepted

\* close_order has refused a non-stop exit whose profit is exactly zero
C37_Witness ==
    /\ pc = "close_order" /\ ~aborted
    /\ ~BrokerStopExit
    /\ ~non_profitable_outs
    /\ BrokerProfit = 0
    /\ ~trade_result.accepted

\* the time frames other than ERR with the number of minutes and the name
\* of each
KnownTimeFrames ==
    { <<"M1", 1>>, <<"M5", 5>>, <<"M15", 15>>, <<"M30", 30>>, <<"H1", 60>>,
      <<"H4", 240>>, <<"D", 1440>>, <<"W", 10080>>, <<"MN", 43200>> }

KnownNumber(n) == \E k \in KnownTimeFrames : k[2] = n

KnownName(s) == \E k \in KnownTimeFrames : k[1] = s

\* C38: the time-frame conversions round-trip: for every time frame tf other
\* than ERR, from_number(tf.to_number()) = tf and from_str of its name =
\* TimeFrame::new of its name = tf; every unknown number or string maps to
\* ERR, whose to_number is 0, so that an order created under an unknown
\* TIME_FRAME has valid_until equal to its creation date.
C38_TimeFrameRoundTrip ==
    /\ (pc = "to_number" /\ trade_result.tf = "ERR") => trade_result.number = 0
    /\ pc = "from_number" =>
          /\ (trade_result.origin # None /\ trade_result.origin # Some("ERR"))
                => trade_result.tf = trade_result.origin[1]
          /\ ~KnownNumber(trade_result.number) => trade_result.tf = "ERR"
    /\ pc = "from_str" =>
          /\ (trade_result.origin # None /\ trade_result.origin # Some("ERR"))
                => trade_result.tf = trade_result.origin[1]
          /\ ~KnownName(trade_result.name) => trade_result.tf = "ERR"
    /\ pc \in {"new", "created"} =>
          /\ (trade_result.origin # None /\ trade_result.origin # Some("ERR"))
                => /\ trade_result.tf = trade_result.origin[1]
                   /\ trade_result.from_str = trade_result.tf
          /\ ~KnownName(trade_result.name) => trade_result.tf = "ERR"
    /\ (pc = "created" /\ ~KnownName(trade_result.name))
          => orders[1].valid_until = Some(orders[1].created_at)

\* H4 has gone through to_number (240) and back through from_number
C38_Witness ==
    /\ pc = "from_number"
    /\ trade_result.origin = Some("H4")
    /\ trade_result.number = 240
    /\ trade_result.tf = "H4"

====
